---- MODULE Spec2Model ----
(***************************************************************************)
(* Session lifecycle and handoff coordinator of the web pairing server:    *)
(* SessionManager (whatsapp/sessions/manager.js) over the SessionStorage   *)
(* coordinator (whatsapp/storage/coordinator.js) and its two backend       *)
(* adapters (MongoDBStorage, PostgreSQLStorage).                           *)
(*                                                                         *)
(* The program is single-threaded JavaScript: an async function runs       *)
(* without interruption up to its next real suspension (a storage round    *)
(* trip, a connection-manager call, a timer) and is resumed later by the   *)
(* event loop, in any order relative to other pending continuations.  Each *)
(* in-flight async call, event handler or timer is one element of the bag  *)
(* `tasks`; its `pc` is the suspension it is parked at.  One action is one *)
(* uninterrupted run of code between two suspensions.  An awaited storage  *)
(* or provider call takes effect in the step that resumes its caller:      *)
(* concurrent requests go out over connection pools, so they complete in   *)
(* any order.  `await this._cleanupSocketOnly(..)` does no I/O and resumes *)
(* in the same macrotask, so it is not a point where a timer, an event or  *)
(* an API call can run in between.                                         *)
(***************************************************************************)
EXTENDS Integers, Sequences, FiniteSets, Bags, TLC

VARIABLES
  activeSockets,          \* Map sessionId -> socket (0: no entry)
  sessionState,           \* SessionState: sessionId -> in-process state
  initializingSessions,   \* Set of sessionIds
  voluntarilyDisconnected,\* Set of sessionIds
  handoffComplete,        \* Set of sessionIds
  handles,                \* every socket the connection manager has created
  mongoSessions,          \* MongoDB collection `sessions`
  pgSessions,             \* PostgreSQL table `users`
  creds,                  \* auth state blobs (auth_baileys / files) per session
  mongoConnected,         \* MongoDBStorage.isConnected
  pgConnected,            \* PostgreSQLStorage.isConnected
  retryCount,             \* MongoDBStorage.retryCount
  tasks,                  \* bag of suspended async calls, handlers and timers
  budget,                 \* remaining API budget, sockets and faulty sockets
  last                    \* history: what the last step did

vars == <<activeSockets, sessionState, initializingSessions, voluntarilyDisconnected,
          handoffComplete, handles, mongoSessions, pgSessions, creds,
          mongoConnected, pgConnected, retryCount, tasks, budget, last>>

storageVars == <<mongoSessions, pgSessions, creds>>
registryVars == <<activeSockets, sessionState>>
flagVars == <<initializingSessions, voluntarilyDisconnected, handoffComplete>>
backendVars == <<mongoConnected, pgConnected, retryCount>>

----------------------------------------------------------------------------
(* Bounds and domains *)

Sessions == {"session_1", "session_2"}
MaxHandles == 3
MaxCalls == 2
MaxFaulty == 1
MaxInFlight == 2
LiveCalls == 2
LiveHandles == 2
maxSessions == 2
RepeatCalls == 3
RepeatHandles == 2
SmallCeiling == 1
CeilingCalls == 2
CeilingHandles == 2
StorageCalls == 2
ShutdownCalls == 2
ShutdownHandles == 1
MaxNameLen == 2
AuthCalls == 2

Phones == {"null", "15550001"}
UserPhone == "15550001"
CloseCodes == {401, 515, 428, 500}
BlobNames == {"creds.json"}
ProviderOutcomes == {"handle", "null", "throws"}

----------------------------------------------------------------------------
(* Values *)

NoRecord ==
  [present |-> FALSE, phoneNumber |-> "null", isConnected |-> FALSE,
   connectionStatus |-> "none", reconnectAttempts |-> 0, detected |-> FALSE]

NoState ==
  [present |-> FALSE, phoneNumber |-> "null", isConnected |-> FALSE,
   connectionStatus |-> "none"]

(* const results = { socket: false, database: false, authState: false } *)
NoResults == [socket |-> FALSE, database |-> FALSE, authState |-> FALSE]

NoLast ==
  [op |-> "none", sid |-> "-", h |-> 0, code |-> 0, stale |-> FALSE,
   wrote |-> FALSE, ret |-> 0, phone |-> "null", pairing |-> FALSE,
   res |-> NoResults]

Note(op, sid, h, code, stale, wrote, ret) ==
  [op |-> op, sid |-> sid, h |-> h, code |-> code, stale |-> stale,
   wrote |-> wrote, ret |-> ret, phone |-> "null", pairing |-> FALSE,
   res |-> NoResults]

Task(kind, pc, sid, h, code, isReconnect, allowPairing, phone, stale) ==
  [kind |-> kind, pc |-> pc, sid |-> sid, h |-> h, code |-> code,
   isReconnect |-> isReconnect, allowPairing |-> allowPairing,
   phone |-> phone, late |-> stale, seen |-> "none", gave |-> -1,
   res |-> NoResults]

CreateTask(pc, sid, phone, isReconnect, allowPairing) ==
  Task("create", pc, sid, 0, 0, isReconnect, allowPairing, phone, FALSE)

HandlerTask(kind, pc, sid, h, code, stale) ==
  Task(kind, pc, sid, h, code, FALSE, FALSE, "null", stale)

ApiTask(kind, pc, sid) ==
  Task(kind, pc, sid, 0, 0, FALSE, FALSE, "null", FALSE)

Pending == BagToSet(tasks)
Wrote == <<mongoSessions, pgSessions, creds>>' # <<mongoSessions, pgSessions, creds>>
Spawn(b, t) == b (+) SetToBag({t})
Finish(b, t) == b (-) SetToBag({t})
Resume(b, t, pc) == Spawn(Finish(b, t), [t EXCEPT !.pc = pc])

RECURSIVE Copies(_, _)
Copies(b, S) ==
  IF S = {} THEN 0
  ELSE LET x == CHOOSE y \in S : TRUE IN CopiesIn(x, b) + Copies(b, S \ {x})

(* The bag b with F applied to each of its elements. *)
MapBag(b, F(_)) ==
  [y \in {F(x) : x \in BagToSet(b)} |-> Copies(b, {x \in BagToSet(b) : F(x) = y})]

(* History kept in a task's `late` field:                                    *)
(*  create:    another createSession call of the session registered a socket *)
(*             while this call was in flight;                                *)
(*  close:     the event came from a socket whose handoff had completed;     *)
(*  reconnect: a 401 or 428 close of the session was handled after this      *)
(*             timer was scheduled and no createSession was called since.    *)
MarkLate(b, kind, sid, v) ==
  LET F(x) == IF x.kind = kind /\ x.sid = sid THEN [x EXCEPT !.late = v] ELSE x
  IN MapBag(b, F)

(* History kept in a task's `seen` field:                                    *)
(*  reconnect: "disconnected" when disconnectSession or a full cleanup of    *)
(*             the session ran while the timer was still waiting to fire;    *)
(*  create:    "fresh" / "stale" as checkAuthAvailability answered, then     *)
(*             "cleaned" when the stale-auth cleanup has completed.          *)
(* and in the `late` field of a handoff timer that waits to fire: the socket *)
(* of the timer was torn down by another path (Disowned: disconnectSession   *)
(* or a full cleanup while it was the registered socket; TornByClose: a      *)
(* handled close event of the socket).                                       *)
Disowned(b, sid) ==
  LET F(x) ==
        IF x.kind = "reconnect" /\ x.sid = sid /\ x.pc = "rc_timer"
          THEN [x EXCEPT !.seen = "disconnected"]
          ELSE IF x.kind = "handoff" /\ x.sid = sid /\ x.pc = "ho_timer"
                  /\ x.h = activeSockets[sid]
                 THEN [x EXCEPT !.late = TRUE]
                 ELSE x
  IN MapBag(b, F)

(* History kept in a create task's `gave` field: the value that the         *)
(* initializing guard returned to another createSession call of the session *)
(* while this call was in flight (-1: no such call; 0: undefined).          *)
GaveEarly(b, sid, v) ==
  LET F(x) == IF x.kind = "create" /\ x.sid = sid THEN [x EXCEPT !.gave = v] ELSE x
  IN MapBag(b, F)

TornByClose(b, h) ==
  LET F(x) == IF x.kind = "handoff" /\ x.h = h /\ x.pc = "ho_timer"
                THEN [x EXCEPT !.late = TRUE] ELSE x
  IN MapBag(b, F)

(* A handoff between adding the marker and dropping the registry entry runs  *)
(* without suspension: nothing else is scheduled while one is in that window. *)
SyncPcs == {"ho_marked", "ho_torn"}
NoSync == \A t \in Pending : t.pc \notin SyncPcs

(* New work (an API call, a socket event) arrives only while fewer than      *)
(* MaxInFlight calls, handlers and timers are pending.                       *)
Admit == NoSync /\ BagCardinality(tasks) < MaxInFlight

----------------------------------------------------------------------------
(* Backend adapters: MongoDBStorage and PostgreSQLStorage.  A session write  *)
(* `data` carries every field; an update `upd` is a record holding only the  *)
(* fields the caller passed (an absent field is JavaScript's undefined).     *)

MongoSaveSession(m, sid, data) ==
  [m EXCEPT ![sid] =
     [present |-> TRUE,
      phoneNumber |-> data.phoneNumber,
      isConnected |-> data.isConnected,
      connectionStatus |-> data.connectionStatus,
      reconnectAttempts |-> data.reconnectAttempts,
      detected |-> data.detected]]

MongoAllowedFields ==
  {"isConnected", "connectionStatus", "phoneNumber", "reconnectAttempts", "source",
   "detected"}

MongoUpdateSession(m, sid, upd) ==
  IF m[sid].present
    THEN [m EXCEPT ![sid] =
            [f \in DOMAIN m[sid] |->
               IF f \in MongoAllowedFields /\ f \in DOMAIN upd THEN upd[f] ELSE m[sid][f]]]
    ELSE m

MongoDeleteSession(m, sid) == [m EXCEPT ![sid] = NoRecord]

MongoDeleteAuthState(c, sid) == [c EXCEPT ![sid] = {}]

PgSaveSession(p, sid, data) ==
  [p EXCEPT ![sid] =
     [present |-> TRUE,
      phoneNumber |-> IF data.phoneNumber # "null" \/ ~p[sid].present
                        THEN data.phoneNumber ELSE p[sid].phoneNumber,
      isConnected |-> data.isConnected,
      connectionStatus |-> data.connectionStatus,
      reconnectAttempts |-> data.reconnectAttempts,
      detected |-> data.detected]]

PgUpdatedFields ==
  {"isConnected", "connectionStatus", "phoneNumber", "reconnectAttempts", "detected"}

PgUpdateSession(p, sid, upd) ==
  IF p[sid].present /\ (DOMAIN upd \cap PgUpdatedFields) # {}
    THEN [p EXCEPT ![sid] =
            [f \in DOMAIN p[sid] |->
               IF f \in PgUpdatedFields /\ f \in DOMAIN upd THEN upd[f] ELSE p[sid][f]]]
    ELSE p

PgCompletelyDeleteSession(p, sid) == [p EXCEPT ![sid] = NoRecord]

----------------------------------------------------------------------------
(* What an adapter operation returns.  `f` is the set of underlying driver   *)
(* calls that throw during the operation ("mongo": sessions collection,     *)
(* "mongoAuth": auth_baileys collection, "pg": users table); the adapter    *)
(* catches the exception and returns false, null or [].                     *)
Drivers == {"mongo", "mongoAuth", "pg"}
NoFault == {}

MongoServes(f) == mongoConnected /\ "mongo" \notin f
PgServes(f) == pgConnected /\ "pg" \notin f

MongoSaveSessionResult(f) == MongoServes(f)
MongoUpdateSessionResult(sid, f) == MongoServes(f) /\ mongoSessions[sid].present
MongoDeleteSessionResult(sid, f) == MongoServes(f) /\ mongoSessions[sid].present
MongoDeleteAuthStateResult(sid, f) ==
  mongoConnected /\ "mongoAuth" \notin f /\ creds[sid] # {}

PgSaveSessionResult(f) == PgServes(f)
PgUpdateSessionResult(sid, upd, f) ==
  PgServes(f) /\ (DOMAIN upd \cap PgUpdatedFields) # {} /\ pgSessions[sid].present
PgCompletelyDeleteSessionResult(sid, f) == PgServes(f) /\ pgSessions[sid].present

----------------------------------------------------------------------------
(* SessionStorage: the coordinator over the two adapters.  The operations    *)
(* `...Under(.., f)` run with the driver calls in f throwing; the plain      *)
(* operations are the ones the session manager sees while both databases    *)
(* answer.                                                                   *)

(* A coordinator that stops at the first backend that took the write. *)
saveSessionUnder_firstWins(sid, data, f) ==
  /\ mongoSessions' = IF MongoServes(f) THEN MongoSaveSession(mongoSessions, sid, data)
                                        ELSE mongoSessions
  /\ pgSessions' = IF PgServes(f) /\ ~MongoServes(f)
                     THEN PgSaveSession(pgSessions, sid, data)
                     ELSE pgSessions
  /\ creds' = creds

saveSessionUnder(sid, data, f) ==
  /\ mongoSessions' = IF MongoServes(f) THEN MongoSaveSession(mongoSessions, sid, data)
                                        ELSE mongoSessions
  /\ pgSessions' = IF PgServes(f) THEN PgSaveSession(pgSessions, sid, data)
                                  ELSE pgSessions
  /\ creds' = creds

saveSessionResult(f) == MongoSaveSessionResult(f) \/ PgSaveSessionResult(f)

saveSession(sid, data) == saveSessionUnder(sid, data, NoFault)

updateSessionUnder(sid, upd, f) ==
  /\ mongoSessions' = IF MongoServes(f) THEN MongoUpdateSession(mongoSessions, sid, upd)
                                        ELSE mongoSessions
  /\ pgSessions' = IF PgServes(f) THEN PgUpdateSession(pgSessions, sid, upd)
                                  ELSE pgSessions
  /\ creds' = creds

updateSessionResult(sid, upd, f) ==
  MongoUpdateSessionResult(sid, f) \/ PgUpdateSessionResult(sid, upd, f)

updateSession(sid, upd) == updateSessionUnder(sid, upd, NoFault)

formatSessionData(rec) ==
  [present |-> rec.present,
   phoneNumber |-> rec.phoneNumber,
   isConnected |-> rec.isConnected,
   connectionStatus |-> IF rec.connectionStatus = "none" THEN "disconnected"
                                                        ELSE rec.connectionStatus,
   reconnectAttempts |-> rec.reconnectAttempts,
   detected |-> (rec.detected # FALSE)]

(* A coordinator that asks PostgreSQL first. *)
getSessionUnder_pgFirst(sid, f) ==
  IF PgServes(f) /\ pgSessions[sid].present
    THEN formatSessionData(pgSessions[sid])
    ELSE IF MongoServes(f) /\ mongoSessions[sid].present
           THEN formatSessionData(mongoSessions[sid])
           ELSE NoRecord

getSessionUnder(sid, f) ==
  IF MongoServes(f) /\ mongoSessions[sid].present
    THEN formatSessionData(mongoSessions[sid])
    ELSE IF PgServes(f) /\ pgSessions[sid].present
           THEN formatSessionData(pgSessions[sid])
           ELSE NoRecord

getSession(sid) == getSessionUnder(sid, NoFault)

(* A coordinator that awaits the deletes one by one and stops at the first   *)
(* one that reports failure.                                                 *)
completelyDeleteSessionUnder_stopsAtFailure(sid, f) ==
  LET first == MongoDeleteSessionResult(sid, f)
      second == first /\ MongoDeleteAuthStateResult(sid, f)
  IN /\ mongoSessions' = IF MongoServes(f) THEN MongoDeleteSession(mongoSessions, sid)
                                           ELSE mongoSessions
     /\ creds' = IF first /\ mongoConnected /\ "mongoAuth" \notin f
                   THEN MongoDeleteAuthState(creds, sid) ELSE creds
     /\ pgSessions' = IF second /\ PgServes(f)
                        THEN PgCompletelyDeleteSession(pgSessions, sid)
                        ELSE pgSessions

completelyDeleteSessionUnder(sid, f) ==
  /\ mongoSessions' = IF MongoServes(f) THEN MongoDeleteSession(mongoSessions, sid)
                                        ELSE mongoSessions
  /\ pgSessions' = IF PgServes(f) THEN PgCompletelyDeleteSession(pgSessions, sid)
                                  ELSE pgSessions
  /\ creds' = IF mongoConnected /\ "mongoAuth" \notin f
                THEN MongoDeleteAuthState(creds, sid) ELSE creds

completelyDeleteSessionResult(sid, f) ==
  \/ MongoDeleteSessionResult(sid, f)
  \/ MongoDeleteAuthStateResult(sid, f)
  \/ PgCompletelyDeleteSessionResult(sid, f)

completelyDeleteSession(sid) == completelyDeleteSessionUnder(sid, NoFault)

getAllSessionsUnder(f) ==
  IF pgConnected
    THEN IF "pg" \in f THEN {} ELSE {s \in Sessions : pgSessions[s].present}
    ELSE IF mongoConnected
           THEN IF "mongo" \in f THEN {} ELSE {s \in Sessions : mongoSessions[s].present}
           ELSE {}

getAllSessions == getAllSessionsUnder(NoFault)

(* The adapter operations a coordinator operation invokes: an adapter is     *)
(* called only behind the coordinator's own isConnected test.                *)
ConnectedBackends ==
  (IF mongoConnected THEN {"mongo"} ELSE {}) \cup (IF pgConnected THEN {"pg"} ELSE {})

saveSessionAsked == ConnectedBackends

updateSessionAsked == ConnectedBackends

getSessionAsked(sid, f) ==
  (IF mongoConnected THEN {"mongo"} ELSE {})
    \cup (IF ~(MongoServes(f) /\ mongoSessions[sid].present) /\ pgConnected
            THEN {"pg"} ELSE {})

completelyDeleteSessionAsked ==
  (IF mongoConnected THEN {"mongo", "mongoAuth"} ELSE {})
    \cup (IF pgConnected THEN {"pg"} ELSE {})

getAllSessionsAsked ==
  IF pgConnected THEN {"pg"} ELSE IF mongoConnected THEN {"mongo"} ELSE {}

(* The record of a session as the coordinator reads it back. *)
SessionRecord(sid) == getSession(sid)

----------------------------------------------------------------------------
(* Connection manager (core/connection.js) and the sockets it returns.       *)

NewHandle(sid, faulty) ==
  [sid |-> sid, user |-> FALSE, ws |-> "connecting", listening |-> FALSE,
   handedOff |-> FALSE, faulty |-> faulty]

(* A faulty socket is one whose event emitter throws when asked to drop its *)
(* listeners; budget.faulty bounds how many of the sockets are faulty.       *)
FaultyChoices == IF budget.faulty > 0 THEN BOOLEAN ELSE {FALSE}

HandleIds == 1..Len(handles)

checkAuthAvailability(sid) == IF creds[sid] = {} THEN "none" ELSE "mongodb"

cleanupAuthState(sid) == creds' = [creds EXCEPT ![sid] = {}]

(* authCleanupResults.mongodb || authCleanupResults.file *)
cleanupAuthStateResult(sid) == creds[sid] # {}

(* existingSocket?.user && existingSocket?.readyState === existingSocket?.ws?.OPEN *)
IsLive(hs, h) == h # 0 /\ hs[h].user /\ hs[h].ws = "open"

(* _cleanupSocketOnly: detach the listeners, close an open transport, clear  *)
(* sock.user; an exception thrown by the socket before the listeners are     *)
(* detached is caught (the result is false) and the socket is left as it was.*)
cleanupSocketOnly(hs, h) ==
  IF h = 0 \/ hs[h].faulty
    THEN hs
    ELSE [hs EXCEPT ![h].listening = FALSE,
                    ![h].ws = IF @ = "open" THEN "closed" ELSE @,
                    ![h].user = FALSE]

cleanupSocketOnlyResult(hs, h) == h # 0 /\ ~hs[h].faulty

(* _setupConnectionHandler: sock.ev.on('connection.update', ...) *)
setupConnectionHandler(hs, h) == [hs EXCEPT ![h].listening = TRUE]

(* SessionState (sessions/state.js) *)
StateSet(st, sid, phone) ==
  [st EXCEPT ![sid] = [present |-> TRUE, phoneNumber |-> phone,
                       isConnected |-> FALSE, connectionStatus |-> "connecting"]]

StateUpdate(st, sid, upd) ==
  IF st[sid].present
    THEN [st EXCEPT ![sid] =
            [f \in DOMAIN st[sid] |-> IF f \in DOMAIN upd THEN upd[f] ELSE st[sid][f]]]
    ELSE st

StateDelete(st, sid) == [st EXCEPT ![sid] = NoState]

SocketsSize == Cardinality({s \in Sessions : activeSockets[s] # 0})

----------------------------------------------------------------------------
Start(b) ==
  /\ activeSockets = [s \in Sessions |-> 0]
  /\ sessionState = [s \in Sessions |-> NoState]
  /\ initializingSessions = {}
  /\ voluntarilyDisconnected = {}
  /\ handoffComplete = {}
  /\ handles = << >>
  /\ mongoSessions = [s \in Sessions |-> NoRecord]
  /\ pgSessions = [s \in Sessions |-> NoRecord]
  /\ creds \in {c \in [Sessions -> {{}, BlobNames}] :
                 \A s \in Sessions \ b.sessions : c[s] = {}}
  /\ mongoConnected = TRUE
  /\ pgConnected = TRUE
  /\ retryCount = 0
  /\ tasks = EmptyBag
  /\ budget = b
  /\ last = NoLast

(* budget.sessions are the sessionIds the callers use and budget.maxSessions *)
(* is the configured ceiling (this.maxSessions).                             *)
Init ==
  Start([calls |-> MaxCalls, handles |-> MaxHandles, faulty |-> MaxFaulty,
         sessions |-> {"session_1"}, maxSessions |-> maxSessions])

----------------------------------------------------------------------------
(* SessionManager.createSession *)

InitialRecord(phone) ==
  [phoneNumber |-> phone, isConnected |-> FALSE, connectionStatus |-> "connecting",
   reconnectAttempts |-> 0, detected |-> FALSE]

(* The synchronous head of performCompleteUserCleanup, up to its first await *)
(* (storage.completelyDeleteSession).                                        *)
CleanupHead(sid) ==
  /\ handles' = cleanupSocketOnly(handles, activeSockets[sid])
  /\ activeSockets' = [activeSockets EXCEPT ![sid] = 0]
  /\ sessionState' = StateDelete(sessionState, sid)
  /\ initializingSessions' = initializingSessions \ {sid}
  /\ voluntarilyDisconnected' = voluntarilyDisconnected \cup {sid}
  /\ handoffComplete' = handoffComplete \ {sid}

(* createSession from its entry to its first await, or to its return when a  *)
(* guard ends it; the finally block runs on every one of these exits.        *)
(* A caller has invoked createSession for sid: reconnect timers of the       *)
(* session lose their history mark.                                          *)
Called(sid) == MarkLate(tasks, "reconnect", sid, FALSE)

createSession(sid, phone, isReconnect, allowPairing) ==
  /\ Admit
  /\ budget.calls > 0
  /\ budget' = [budget EXCEPT !.calls = @ - 1]
  /\ UNCHANGED <<storageVars, backendVars, voluntarilyDisconnected, handoffComplete>>
  /\ IF sid \in initializingSessions
       THEN /\ initializingSessions' = initializingSessions \ {sid}
            /\ UNCHANGED <<registryVars, handles>>
            /\ tasks' = GaveEarly(Called(sid), sid, activeSockets[sid])
            /\ last' = Note("create.initializing", sid, 0, 0, FALSE, FALSE, activeSockets[sid])
       ELSE IF sid \in handoffComplete
         THEN /\ UNCHANGED <<registryVars, handles, initializingSessions>>
              /\ tasks' = Called(sid)
              /\ last' = Note("create.handedOff", sid, 0, 0, FALSE, FALSE, 0)
         ELSE IF activeSockets[sid] # 0 /\ ~isReconnect /\ IsLive(handles, activeSockets[sid])
           THEN /\ UNCHANGED <<registryVars, handles, initializingSessions>>
                /\ tasks' = Called(sid)
                /\ last' = Note("create.existing", sid, 0, 0, FALSE, FALSE, activeSockets[sid])
           ELSE LET dead == activeSockets[sid] # 0 /\ ~isReconnect
                IN   /\ handles' = IF dead THEN cleanupSocketOnly(handles, activeSockets[sid])
                                           ELSE handles
                     /\ activeSockets' = IF dead THEN [activeSockets EXCEPT ![sid] = 0]
                                                 ELSE activeSockets
                     /\ sessionState' = IF dead THEN StateDelete(sessionState, sid)
                                                ELSE sessionState
                     /\ IF Cardinality({s \in Sessions : activeSockets'[s] # 0}) >= budget.maxSessions
                          THEN /\ UNCHANGED initializingSessions
                               /\ tasks' = Called(sid)
                               /\ last' = Note("create.capacity", sid, 0, 0, FALSE, FALSE, 0)
                          ELSE /\ initializingSessions' = initializingSessions \cup {sid}
                               /\ tasks' = Spawn(Called(sid),
                                    CreateTask(IF ~isReconnect /\ allowPairing
                                                 THEN "cs_auth" ELSE "cs_conn",
                                               sid, phone, isReconnect, allowPairing))
                               /\ last' = NoLast

(* createSession that pairs without the stale-auth cleanup. *)
createSessionAuthChecked_noCleanup(t) ==
  /\ NoSync
  /\ t.kind = "create" /\ t.pc = "cs_auth"
  /\ UNCHANGED <<storageVars, backendVars, budget>>
  /\ last' = NoLast
  /\ IF checkAuthAvailability(t.sid) # "none"
       THEN /\ tasks' = Spawn(Finish(tasks, t),
                              [t EXCEPT !.pc = "cs_conn", !.seen = "stale"])
            /\ UNCHANGED <<registryVars, flagVars, handles>>
       ELSE /\ tasks' = Spawn(Finish(tasks, t),
                              [t EXCEPT !.pc = "cs_conn", !.seen = "fresh"])
            /\ UNCHANGED <<registryVars, flagVars, handles>>

(* checkAuthAvailability has answered: stale auth starts the full cleanup. *)
createSessionAuthChecked(t) ==
  /\ NoSync
  /\ t.kind = "create" /\ t.pc = "cs_auth"
  /\ UNCHANGED <<storageVars, backendVars, budget>>
  /\ last' = NoLast
  /\ IF checkAuthAvailability(t.sid) # "none"
       THEN /\ CleanupHead(t.sid)
            /\ tasks' = Spawn(Finish(Disowned(tasks, t.sid), t),
                              [t EXCEPT !.pc = "cl_db", !.seen = "stale"])
       ELSE /\ tasks' = Spawn(Finish(tasks, t),
                              [t EXCEPT !.pc = "cs_conn", !.seen = "fresh"])
            /\ UNCHANGED <<registryVars, flagVars, handles>>

(* The 1000 ms settling delay after the stale-auth cleanup has elapsed. *)
createSessionSettled(t) ==
  /\ NoSync
  /\ t.kind = "create" /\ t.pc = "cs_settle"
  /\ tasks' = Resume(tasks, t, "cs_conn")
  /\ last' = NoLast
  /\ UNCHANGED <<registryVars, flagVars, handles, storageVars, backendVars, budget>>

(* createSession without its finally block: a failing call keeps the marker. *)
createSessionConnected_noFinally(t) ==
  /\ NoSync
  /\ t.kind = "create" /\ t.pc = "cs_conn"
  /\ UNCHANGED <<storageVars, backendVars, voluntarilyDisconnected, handoffComplete>>
  /\ \E r \in ProviderOutcomes, faulty \in FaultyChoices :
       IF r = "handle"
         THEN /\ budget.handles > 0
              /\ budget' = [budget EXCEPT !.handles = @ - 1,
                                          !.faulty = IF faulty THEN @ - 1 ELSE @]
              /\ LET h == Len(handles) + 1
                 IN /\ handles' = setupConnectionHandler(
                                    Append(handles,
                                           NewHandle(t.sid, faulty)), h)
                    /\ activeSockets' = [activeSockets EXCEPT ![t.sid] = h]
                    /\ sessionState' = StateSet(sessionState, t.sid, t.phone)
                    /\ tasks' = Spawn(MarkLate(Finish(tasks, t), "create", t.sid, TRUE),
                                      [t EXCEPT !.pc = "cs_save", !.h = h])
                    /\ UNCHANGED initializingSessions
                    /\ last' = Note("create.registered", t.sid, h, 0, FALSE, FALSE, h)
         ELSE /\ UNCHANGED initializingSessions
              /\ tasks' = Finish(tasks, t)
              /\ last' = Note("create.failed", t.sid, 0, 0, FALSE, FALSE, 0)
              /\ UNCHANGED <<registryVars, handles, budget>>

(* connectionManager.createConnection has settled. *)
createSessionConnected(t) ==
  /\ NoSync
  /\ t.kind = "create" /\ t.pc = "cs_conn"
  /\ UNCHANGED <<storageVars, backendVars, voluntarilyDisconnected, handoffComplete>>
  /\ \E r \in ProviderOutcomes, faulty \in FaultyChoices :
       IF r = "handle"
         THEN /\ budget.handles > 0
              /\ budget' = [budget EXCEPT !.handles = @ - 1,
                                          !.faulty = IF faulty THEN @ - 1 ELSE @]
              /\ LET h == Len(handles) + 1
                 IN /\ handles' = setupConnectionHandler(
                                    Append(handles,
                                           NewHandle(t.sid, faulty)), h)
                    /\ activeSockets' = [activeSockets EXCEPT ![t.sid] = h]
                    /\ sessionState' = StateSet(sessionState, t.sid, t.phone)
                    /\ tasks' = Spawn(MarkLate(Finish(tasks, t), "create", t.sid, TRUE),
                                      [t EXCEPT !.pc = "cs_save", !.h = h])
                    /\ UNCHANGED initializingSessions
                    /\ last' = Note("create.registered", t.sid, h, 0, FALSE, FALSE, h)
         ELSE /\ initializingSessions' = initializingSessions \ {t.sid}
              /\ tasks' = Finish(tasks, t)
              /\ last' = Note("create.failed", t.sid, 0, 0, FALSE, FALSE, 0)
              /\ UNCHANGED <<registryVars, handles, budget>>

(* storage.saveSession has settled: createSession returns the socket. *)
createSessionSaved(t) ==
  /\ NoSync
  /\ t.kind = "create" /\ t.pc = "cs_save"
  /\ saveSession(t.sid, InitialRecord(t.phone))
  /\ initializingSessions' = initializingSessions \ {t.sid}
  /\ tasks' = Finish(tasks, t)
  /\ UNCHANGED <<registryVars, handles, backendVars, budget,
                 voluntarilyDisconnected, handoffComplete>>
  /\ last' = Note("create.returned", t.sid, t.h, 0, FALSE, Wrote, t.h)

----------------------------------------------------------------------------
(* SessionManager.performCompleteUserCleanup and disconnectSession *)

performCompleteUserCleanup(sid) ==
  /\ Admit
  /\ budget.calls > 0
  /\ budget' = [budget EXCEPT !.calls = @ - 1]
  /\ CleanupHead(sid)
  /\ tasks' = Spawn(Disowned(tasks, sid),
                    [ApiTask("cleanup", "cl_db", sid) EXCEPT
                       !.res.socket = cleanupSocketOnlyResult(handles, activeSockets[sid])])
  /\ last' = NoLast
  /\ UNCHANGED <<storageVars, backendVars>>

(* The result record is followed for the API call; createSession drops the  *)
(* result of the cleanup it runs.                                           *)
WithDatabase(t, v) == IF t.kind = "cleanup" THEN [t EXCEPT !.res.database = v] ELSE t
WithAuthState(t, v) == IF t.kind = "cleanup" THEN [t EXCEPT !.res.authState = v] ELSE t

(* A cleanup that gives up when the database deletion reports failure. *)
cleanupDeleted_stopsOnFailure(t) ==
  /\ NoSync
  /\ t.pc = "cl_db"
  /\ completelyDeleteSession(t.sid)
  /\ tasks' = IF completelyDeleteSessionResult(t.sid, NoFault) \/ t.kind # "cleanup"
                THEN Spawn(Finish(tasks, t),
                           [WithDatabase(t, completelyDeleteSessionResult(t.sid, NoFault))
                              EXCEPT !.pc = "cl_auth"])
                ELSE Finish(tasks, t)
  /\ last' = NoLast
  /\ UNCHANGED <<registryVars, flagVars, handles, backendVars, budget>>

(* storage.completelyDeleteSession has settled. *)
cleanupDeleted(t) ==
  /\ NoSync
  /\ t.pc = "cl_db"
  /\ completelyDeleteSession(t.sid)
  /\ tasks' = Spawn(Finish(tasks, t),
                    [WithDatabase(t, completelyDeleteSessionResult(t.sid, NoFault))
                       EXCEPT !.pc = "cl_auth"])
  /\ last' = NoLast
  /\ UNCHANGED <<registryVars, flagVars, handles, backendVars, budget>>

(* connectionManager.cleanupAuthState has settled. *)
cleanupAuthCleared(t) ==
  /\ NoSync
  /\ t.pc = "cl_auth"
  /\ cleanupAuthState(t.sid)
  /\ tasks' = IF t.kind = "create"
                THEN Spawn(Finish(tasks, t), [t EXCEPT !.pc = "cs_settle", !.seen = "cleaned"])
                ELSE Finish(tasks, t)
  /\ UNCHANGED <<registryVars, flagVars, handles, mongoSessions, pgSessions,
                 backendVars, budget>>
  /\ last' = IF t.kind = "create" THEN NoLast
             ELSE [Note("cleanup.returned", t.sid, 0, 0, FALSE, Wrote, 0) EXCEPT
                     !.res = WithAuthState(t, cleanupAuthStateResult(t.sid)).res]

Disconnected == [isConnected |-> FALSE, connectionStatus |-> "disconnected"]

(* disconnectSession up to its first await; with forceCleanup it is the     *)
(* full cleanup and returns what that returns.                              *)
disconnectSession(sid, forceCleanup) ==
  IF forceCleanup
    THEN performCompleteUserCleanup(sid)
    ELSE /\ Admit
         /\ budget.calls > 0
         /\ budget' = [budget EXCEPT !.calls = @ - 1]
         /\ initializingSessions' = initializingSessions \ {sid}
         /\ voluntarilyDisconnected' = voluntarilyDisconnected \cup {sid}
         /\ handoffComplete' = handoffComplete \ {sid}
         /\ handles' = cleanupSocketOnly(handles, activeSockets[sid])
         /\ activeSockets' = [activeSockets EXCEPT ![sid] = 0]
         /\ sessionState' = StateDelete(sessionState, sid)
         /\ tasks' = Spawn(Disowned(tasks, sid), ApiTask("disconnect", "d_upd", sid))
         /\ last' = NoLast
         /\ UNCHANGED <<storageVars, backendVars>>

(* disconnectSession that deletes the record instead of marking it. *)
disconnectSessionUpdated_deletes(t) ==
  /\ NoSync
  /\ t.kind = "disconnect" /\ t.pc = "d_upd"
  /\ completelyDeleteSession(t.sid)
  /\ tasks' = IF t.seen = "shutdown" THEN Resume(tasks, t, "d_done") ELSE Finish(tasks, t)
  /\ last' = Note("disconnect.returned", t.sid, 0, 0, FALSE, Wrote, 0)
  /\ UNCHANGED <<registryVars, flagVars, handles, backendVars, budget>>

(* storage.updateSession has settled: disconnectSession returns true.  A    *)
(* call made by shutdown stays in its disconnectPromises, settled, until     *)
(* shutdown returns.                                                         *)
disconnectSessionUpdated(t) ==
  /\ NoSync
  /\ t.kind = "disconnect" /\ t.pc = "d_upd"
  /\ updateSession(t.sid, Disconnected)
  /\ tasks' = IF t.seen = "shutdown" THEN Resume(tasks, t, "d_done") ELSE Finish(tasks, t)
  /\ last' = Note("disconnect.returned", t.sid, 0, 0, FALSE, Wrote, 0)
  /\ UNCHANGED <<registryVars, flagVars, handles, backendVars, budget>>

----------------------------------------------------------------------------
(* _setupConnectionHandler: the 'connection.update' listener of one socket.  *)
(* The emitter calls the async listener at once and does not wait for it:    *)
(* the listener runs to its first await inside the emitting step.            *)

Connected ==
  [isConnected |-> TRUE, connectionStatus |-> "connected",
   phoneNumber |-> UserPhone, detected |-> FALSE]

Reconnecting ==
  [isConnected |-> FALSE, connectionStatus |-> "reconnecting", detected |-> FALSE]

(* The socket reports connection: 'open'.  By then the provider has stored *)
(* the credentials of the paired identity.                                  *)
emitOpen(h) ==
  /\ Admit
  /\ h \in HandleIds
  /\ handles[h].listening /\ handles[h].ws = "connecting"
  /\ handles' = [handles EXCEPT ![h].ws = "open", ![h].user = TRUE]
  /\ creds' = [creds EXCEPT ![handles[h].sid] = BlobNames]
  /\ tasks' = Spawn(tasks, HandlerTask("open", "o_upd", handles[h].sid, h, 0, FALSE))
  /\ last' = NoLast
  /\ UNCHANGED <<registryVars, flagVars, mongoSessions, pgSessions, backendVars, budget>>

(* The open branch after storage.updateSession has settled. *)
openUpdated(t) ==
  /\ NoSync
  /\ t.kind = "open" /\ t.pc = "o_upd"
  /\ updateSession(t.sid, Connected)
  /\ sessionState' = StateUpdate(sessionState, t.sid,
                       [isConnected |-> TRUE, connectionStatus |-> "connected"])
  /\ tasks' = Spawn(Finish(tasks, t), HandlerTask("handoff", "ho_timer", t.sid, t.h, 0, FALSE))
  /\ last' = Note("open.handled", t.sid, t.h, 0, FALSE, Wrote, 0)
  /\ UNCHANGED <<activeSockets, flagVars, handles, backendVars, budget>>

(* The socket reports connection: 'close' with a status code. *)
emitClose(h, code) ==
  /\ Admit
  /\ h \in HandleIds
  /\ handles[h].listening /\ handles[h].ws # "closed"
  /\ handles' = [handles EXCEPT ![h].ws = "closed"]
  /\ IF handles[h].sid \in handoffComplete
       THEN /\ tasks' = tasks
            /\ last' = Note("close.ignored", handles[h].sid, h, code,
                            handles[h].handedOff, FALSE, 0)
       ELSE /\ tasks' = Spawn(tasks, HandlerTask("close", "c_upd", handles[h].sid, h, code,
                                                 handles[h].handedOff))
            /\ last' = Note("close.started", handles[h].sid, h, code,
                            handles[h].handedOff, FALSE, 0)
  /\ UNCHANGED <<registryVars, flagVars, storageVars, backendVars, budget>>

(* The close branch after its first storage.updateSession has settled. *)
closeUpdated(t) ==
  /\ NoSync
  /\ t.kind = "close" /\ t.pc = "c_upd"
  /\ UNCHANGED <<flagVars, backendVars, budget>>
  /\ IF t.code \in {401, 428}
       THEN /\ updateSession(t.sid, Disconnected)
            /\ tasks' = Resume(tasks, t, "c_auth")
            /\ last' = Note("close.step", t.sid, t.h, t.code, t.late, Wrote, 0)
            /\ UNCHANGED <<registryVars, handles>>
       ELSE IF t.code = 515
         THEN /\ updateSession(t.sid, Reconnecting)
              /\ tasks' = Spawn(TornByClose(Finish(tasks, t), t.h),
                                HandlerTask("reconnect", "rc_timer", t.sid, t.h, 515, FALSE))
              /\ last' = Note("close.handled", t.sid, t.h, t.code, t.late, Wrote, 1)
              /\ UNCHANGED <<registryVars, handles>>
         ELSE /\ updateSession(t.sid, Disconnected)
              /\ handles' = cleanupSocketOnly(handles, t.h)
              /\ activeSockets' = [activeSockets EXCEPT ![t.sid] = 0]
              /\ sessionState' = StateDelete(sessionState, t.sid)
              /\ tasks' = TornByClose(Finish(tasks, t), t.h)
              /\ last' = Note("close.handled", t.sid, t.h, t.code, t.late, Wrote, 1)

(* closeAuthCleared without the purge of the credentials. *)
closeAuthCleared_noPurge(t) ==
  /\ NoSync
  /\ t.kind = "close" /\ t.pc = "c_auth"
  /\ handles' = cleanupSocketOnly(handles, t.h)
  /\ activeSockets' = [activeSockets EXCEPT ![t.sid] = 0]
  /\ sessionState' = StateDelete(sessionState, t.sid)
  /\ tasks' = TornByClose(MarkLate(Finish(tasks, t), "reconnect", t.sid, TRUE), t.h)
  /\ UNCHANGED <<flagVars, storageVars, backendVars, budget>>
  /\ last' = Note("close.handled", t.sid, t.h, t.code, t.late, FALSE, 1)

(* The 401 and 428 branches after cleanupAuthState has settled. *)
closeAuthCleared(t) ==
  /\ NoSync
  /\ t.kind = "close" /\ t.pc = "c_auth"
  /\ cleanupAuthState(t.sid)
  /\ handles' = cleanupSocketOnly(handles, t.h)
  /\ activeSockets' = [activeSockets EXCEPT ![t.sid] = 0]
  /\ sessionState' = StateDelete(sessionState, t.sid)
  /\ tasks' = TornByClose(MarkLate(Finish(tasks, t), "reconnect", t.sid, TRUE), t.h)
  /\ UNCHANGED <<flagVars, mongoSessions, pgSessions, backendVars, budget>>
  /\ last' = Note("close.handled", t.sid, t.h, t.code, t.late, Wrote, 1)

----------------------------------------------------------------------------
(* The 515 reconnect timer callback *)

reconnectTimer(t) ==
  /\ NoSync
  /\ t.kind = "reconnect" /\ t.pc = "rc_timer"
  /\ tasks' = Resume(tasks, t, "rc_get")
  /\ last' = NoLast
  /\ UNCHANGED <<registryVars, flagVars, handles, storageVars, backendVars, budget>>

(* reconnectLoaded without the check of the phone number. *)
reconnectLoaded_noPhoneCheck(t) ==
  /\ NoSync
  /\ t.kind = "reconnect" /\ t.pc = "rc_get"
  /\ tasks' = Spawn(Finish(tasks, t),
                    [t EXCEPT !.pc = "rc_conn", !.phone = getSession(t.sid).phoneNumber])
  /\ last' = NoLast
  /\ UNCHANGED <<registryVars, flagVars, handles, storageVars, backendVars, budget>>

(* storage.getSession has settled. *)
reconnectLoaded(t) ==
  /\ NoSync
  /\ t.kind = "reconnect" /\ t.pc = "rc_get"
  /\ tasks' = IF getSession(t.sid).phoneNumber = "null"
                THEN Resume(tasks, t, "rc_upd")
                ELSE Spawn(Finish(tasks, t),
                           [t EXCEPT !.pc = "rc_conn", !.phone = getSession(t.sid).phoneNumber])
  /\ last' = NoLast
  /\ UNCHANGED <<registryVars, flagVars, handles, storageVars, backendVars, budget>>

(* connectionManager.createConnection has settled. *)
reconnectConnected(t) ==
  /\ NoSync
  /\ t.kind = "reconnect" /\ t.pc = "rc_conn"
  /\ UNCHANGED <<sessionState, flagVars, storageVars, backendVars>>
  /\ \E r \in ProviderOutcomes, faulty \in FaultyChoices :
       IF r = "handle"
         THEN /\ budget.handles > 0
              /\ budget' = [budget EXCEPT !.handles = @ - 1,
                                          !.faulty = IF faulty THEN @ - 1 ELSE @]
              /\ LET h == Len(handles) + 1
                 IN /\ handles' = setupConnectionHandler(
                                    Append(handles,
                                           NewHandle(t.sid, faulty)), h)
                    /\ activeSockets' = [activeSockets EXCEPT ![t.sid] = h]
                    /\ tasks' = Finish(tasks, t)
                    /\ last' = [Note("reconnect.registered", t.sid, t.h, 515, t.late, FALSE, h)
                                 EXCEPT !.phone = t.phone, !.pairing = t.allowPairing]
         ELSE /\ tasks' = Resume(tasks, t, "rc_upd")
              /\ last' = NoLast
              /\ UNCHANGED <<activeSockets, handles, budget>>

(* The failure paths' storage.updateSession has settled. *)
reconnectFailed(t) ==
  /\ NoSync
  /\ t.kind = "reconnect" /\ t.pc = "rc_upd"
  /\ updateSession(t.sid, Disconnected)
  /\ tasks' = Finish(tasks, t)
  /\ last' = [Note("reconnect.failed", t.sid, t.h, 515, t.late, Wrote, 0)
                EXCEPT !.phone = t.phone]
  /\ UNCHANGED <<registryVars, flagVars, handles, backendVars, budget>>

----------------------------------------------------------------------------
(* _handoffToMainServer, run by the handoff timer *)

handoffTimer(t) ==
  /\ NoSync
  /\ t.kind = "handoff" /\ t.pc = "ho_timer"
  /\ IF IsLive(handles, t.h)
       THEN /\ handoffComplete' = handoffComplete \cup {t.sid}
            /\ tasks' = Resume(tasks, t, "ho_marked")
            /\ last' = Note("handoff.marked", t.sid, t.h, 0, t.late, FALSE, 0)
       ELSE /\ handoffComplete' = handoffComplete
            /\ tasks' = Finish(tasks, t)
            /\ last' = Note("handoff.aborted", t.sid, t.h, 0, t.late, FALSE, 0)
  /\ UNCHANGED <<registryVars, initializingSessions, voluntarilyDisconnected, handles,
                 storageVars, backendVars, budget>>

(* A handoff whose teardown also purges the credentials. *)
handoffCleanup_purges(t) ==
  /\ t.kind = "handoff" /\ t.pc = "ho_marked"
  /\ handles' = cleanupSocketOnly(handles, t.h)
  /\ last' = Note("handoff.cleaned", t.sid, t.h, 0, t.late, FALSE,
                  IF cleanupSocketOnlyResult(handles, t.h) THEN 1 ELSE 0)
  /\ tasks' = Resume(tasks, t, "ho_torn")
  /\ cleanupAuthState(t.sid)
  /\ UNCHANGED <<registryVars, flagVars, mongoSessions, pgSessions, backendVars, budget>>

(* await this._cleanupSocketOnly(sessionId, sock) inside the handoff *)
handoffCleanup(t) ==
  /\ t.kind = "handoff" /\ t.pc = "ho_marked"
  /\ handles' = cleanupSocketOnly(handles, t.h)
  /\ last' = Note("handoff.cleaned", t.sid, t.h, 0, t.late, FALSE,
                  IF cleanupSocketOnlyResult(handles, t.h) THEN 1 ELSE 0)
  /\ tasks' = Resume(tasks, t, "ho_torn")
  /\ UNCHANGED <<registryVars, flagVars, storageVars, backendVars, budget>>

(* handoffRemove with a record update added. *)
handoffRemove_updatesRecord(t) ==
  /\ t.kind = "handoff" /\ t.pc = "ho_torn"
  /\ activeSockets' = [activeSockets EXCEPT ![t.sid] = 0]
  /\ sessionState' = StateDelete(sessionState, t.sid)
  /\ handles' = [handles EXCEPT ![t.h].handedOff = TRUE]
  /\ tasks' = Finish(tasks, t)
  /\ updateSession(t.sid, Disconnected)
  /\ last' = Note("handoff.done", t.sid, t.h, 0, t.late, Wrote, last.ret)
  /\ UNCHANGED <<flagVars, backendVars, budget>>

handoffRemove(t) ==
  /\ t.kind = "handoff" /\ t.pc = "ho_torn"
  /\ activeSockets' = [activeSockets EXCEPT ![t.sid] = 0]
  /\ sessionState' = StateDelete(sessionState, t.sid)
  /\ handles' = [handles EXCEPT ![t.h].handedOff = TRUE]
  /\ tasks' = Finish(tasks, t)
  /\ last' = Note("handoff.done", t.sid, t.h, 0, t.late, FALSE, last.ret)
  /\ UNCHANGED <<flagVars, storageVars, backendVars, budget>>

----------------------------------------------------------------------------
Next ==
  \/ \E sid \in budget.sessions, phone \in Phones, isReconnect \in BOOLEAN, allowPairing \in BOOLEAN :
       createSession(sid, phone, isReconnect, allowPairing)
  \/ \E sid \in budget.sessions : performCompleteUserCleanup(sid)
  \/ \E sid \in budget.sessions, forceCleanup \in BOOLEAN :
       disconnectSession(sid, forceCleanup)
  \/ \E h \in 1..MaxHandles : emitOpen(h)
  \/ \E h \in 1..MaxHandles, code \in CloseCodes : emitClose(h, code)
  \/ \E t \in Pending : createSessionAuthChecked(t)
  \/ \E t \in Pending : createSessionSettled(t)
  \/ \E t \in Pending : createSessionConnected(t)
  \/ \E t \in Pending : createSessionSaved(t)
  \/ \E t \in Pending : cleanupDeleted(t)
  \/ \E t \in Pending : cleanupAuthCleared(t)
  \/ \E t \in Pending : disconnectSessionUpdated(t)
  \/ \E t \in Pending : openUpdated(t)
  \/ \E t \in Pending : closeUpdated(t)
  \/ \E t \in Pending : closeAuthCleared(t)
  \/ \E t \in Pending : reconnectTimer(t)
  \/ \E t \in Pending : reconnectLoaded(t)
  \/ \E t \in Pending : reconnectConnected(t)
  \/ \E t \in Pending : reconnectFailed(t)
  \/ \E t \in Pending : handoffTimer(t)
  \/ \E t \in Pending : handoffCleanup(t)
  \/ \E t \in Pending : handoffRemove(t)

Spec == Init /\ [][Next]_vars

(* The steps the event loop takes by itself: a timer that fires, an awaited  *)
(* storage or provider call that settles.  Calls of the API and events of    *)
(* the sockets are the environment's and may never come.                     *)
Continue ==
  \E t \in Pending :
    \/ createSessionAuthChecked(t) \/ createSessionSettled(t)
    \/ createSessionConnected(t) \/ createSessionSaved(t)
    \/ cleanupDeleted(t) \/ cleanupAuthCleared(t) \/ disconnectSessionUpdated(t)
    \/ openUpdated(t) \/ closeUpdated(t) \/ closeAuthCleared(t)
    \/ reconnectTimer(t) \/ reconnectLoaded(t) \/ reconnectConnected(t)
    \/ reconnectFailed(t)
    \/ handoffTimer(t) \/ handoffCleanup(t) \/ handoffRemove(t)

InitLive ==
  Start([calls |-> LiveCalls, handles |-> LiveHandles, faulty |-> 0,
         sessions |-> {"session_1"}, maxSessions |-> maxSessions])

SpecLive == InitLive /\ [][Next]_vars /\ WF_vars(Continue)

(* One more API call on one session, all sockets sound. *)
InitRepeat ==
  Start([calls |-> RepeatCalls, handles |-> RepeatHandles, faulty |-> 0,
         sessions |-> {"session_1"}, maxSessions |-> maxSessions])

SpecRepeat == InitRepeat /\ [][Next]_vars

(* Two sessionIds against a ceiling of one session. *)
InitCeiling ==
  Start([calls |-> CeilingCalls, handles |-> CeilingHandles, faulty |-> 0,
         sessions |-> Sessions, maxSessions |-> SmallCeiling])

SpecCeiling == InitCeiling /\ [][Next]_vars

----------------------------------------------------------------------------
(* SessionManager.shutdown *)

Registered == {s \in Sessions : activeSockets[s] # 0}

(* The entries of disconnectPromises. *)
ShutdownPromises == {t \in Pending : t.kind = "disconnect" /\ t.seen = "shutdown"}

RECURSIVE DisownedAll(_, _)
DisownedAll(b, S) ==
  IF S = {} THEN b
  ELSE LET s == CHOOSE x \in S : TRUE IN DisownedAll(Disowned(b, s), S \ {s})

(* shutdown up to its first suspension: the loop has called disconnectSession *)
(* for every key of activeSockets and each of these calls has run up to its  *)
(* storage.updateSession; shutdown waits in Promise.allSettled.              *)
shutdown ==
  /\ Admit
  /\ budget.calls > 0
  /\ \A t \in Pending : t.kind # "shutdown"
  /\ budget' = [budget EXCEPT !.calls = @ - 1]
  /\ initializingSessions' = initializingSessions \ Registered
  /\ voluntarilyDisconnected' = voluntarilyDisconnected \cup Registered
  /\ handoffComplete' = handoffComplete \ Registered
  /\ handles' = [h \in DOMAIN handles |->
                   IF \E s \in Registered : activeSockets[s] = h
                     THEN cleanupSocketOnly(handles, h)[h] ELSE handles[h]]
  /\ activeSockets' = [s \in Sessions |-> 0]
  /\ sessionState' = [s \in Sessions |->
                        IF s \in Registered THEN NoState ELSE sessionState[s]]
  /\ tasks' = DisownedAll(tasks, Registered)
                 (+) SetToBag({[ApiTask("disconnect", "d_upd", s) EXCEPT !.seen = "shutdown"]
                                : s \in Registered})
                 (+) SetToBag({ApiTask("shutdown", "sd_wait", "-")})
  /\ last' = Note("shutdown.called", "-", 0, 0, FALSE, FALSE, Cardinality(Registered))
  /\ UNCHANGED <<storageVars, backendVars>>

(* Promise.allSettled(disconnectPromises) has settled; storage.close() closes *)
(* both adapters.                                                            *)
shutdownSettled(t) ==
  /\ NoSync
  /\ t.kind = "shutdown" /\ t.pc = "sd_wait"
  /\ \A u \in ShutdownPromises : u.pc = "d_done"
  /\ mongoConnected' = FALSE
  /\ pgConnected' = FALSE
  /\ retryCount' = retryCount
  /\ tasks' = Resume(tasks, t, "sd_closed")
  /\ last' = Note("shutdown.closed", "-", 0, 0, FALSE, FALSE, 0)
  /\ UNCHANGED <<registryVars, flagVars, handles, storageVars, budget>>

(* connectionManager.cleanup() has settled: shutdown returns. *)
shutdownReturned(t) ==
  /\ NoSync
  /\ t.kind = "shutdown" /\ t.pc = "sd_closed"
  /\ tasks' = Finish(tasks, t) (-) SetToBag(ShutdownPromises)
  /\ last' = Note("shutdown.returned", "-", 0, 0, FALSE, FALSE,
                  Cardinality({u.sid : u \in ShutdownPromises}))
  /\ UNCHANGED <<registryVars, flagVars, handles, storageVars, backendVars, budget>>

NextShutdown ==
  \/ Next
  \/ shutdown
  \/ \E t \in Pending : shutdownSettled(t)
  \/ \E t \in Pending : shutdownReturned(t)

(* shutdown is called on a manager that is in use: an earlier                 *)
(* createSession(Paired, UserPhone, false, true) has returned, its socket is  *)
(* registered and still connecting, and the callers go on using session_1.   *)
Paired == "session_2"

InitShutdown ==
  /\ handles = setupConnectionHandler(Append(<< >>, NewHandle(Paired, FALSE)), 1)
  /\ activeSockets = [[s \in Sessions |-> 0] EXCEPT ![Paired] = 1]
  /\ sessionState = StateSet([s \in Sessions |-> NoState], Paired, UserPhone)
  /\ initializingSessions = {}
  /\ voluntarilyDisconnected = {}
  /\ handoffComplete = {}
  /\ mongoSessions = MongoSaveSession([s \in Sessions |-> NoRecord], Paired,
                                      InitialRecord(UserPhone))
  /\ pgSessions = PgSaveSession([s \in Sessions |-> NoRecord], Paired,
                                InitialRecord(UserPhone))
  /\ creds \in {c \in [Sessions -> {{}, BlobNames}] : c[Paired] = {}}
  /\ mongoConnected = TRUE
  /\ pgConnected = TRUE
  /\ retryCount = 0
  /\ tasks = EmptyBag
  /\ budget = [calls |-> ShutdownCalls, handles |-> ShutdownHandles, faulty |-> 0,
               sessions |-> Sessions \ {Paired}, maxSessions |-> maxSessions]
  /\ last = NoLast

SpecShutdown == InitShutdown /\ [][NextShutdown]_vars

----------------------------------------------------------------------------
(* The storage layer on its own: the startup of the two adapters and the     *)
(* coordinator's operations called while the databases come and go.          *)

(* MongoDBStorage: this.maxRetries and the back-off of _initConnection. *)
maxRetries == 3
BaseDelay == 5000
MaxDelay == 30000

RetryDelay(k) ==
  IF BaseDelay * 2^(k - 1) < MaxDelay THEN BaseDelay * 2^(k - 1) ELSE MaxDelay

StorageNote(op, sid, f, asked, ret) ==
  [op |-> op, sid |-> sid, f |-> f, asked |-> asked, ret |-> ret, delay |-> 0]

SaveInputs == {InitialRecord(phone) : phone \in Phones}
UpdateInputs == {Connected, Disconnected, Reconnecting, [source |-> "web"]}

StorageCall ==
  /\ budget.calls > 0
  /\ budget' = [budget EXCEPT !.calls = @ - 1]
  /\ UNCHANGED <<registryVars, flagVars, handles, backendVars, tasks>>

(* new MongoDBStorage(): _initConnection's connect and ping have succeeded. *)
mongoInitConnected(t) ==
  /\ t.kind = "mongoInit" /\ t.pc = "connect"
  /\ mongoConnected' = TRUE
  /\ retryCount' = 0
  /\ tasks' = Finish(tasks, t)
  /\ last' = StorageNote("mongo.connected", "-", {}, {}, TRUE)
  /\ UNCHANGED <<registryVars, flagVars, handles, storageVars, pgConnected, budget>>

(* _initConnection's catch: the connect timed out or threw, or the ping      *)
(* failed; a retry timer is set while retryCount < maxRetries.               *)
mongoInitFailed(t) ==
  /\ t.kind = "mongoInit" /\ t.pc = "connect"
  /\ mongoConnected' = FALSE
  /\ IF retryCount < maxRetries
       THEN /\ retryCount' = retryCount + 1
            /\ tasks' = Resume(tasks, t, "timer")
            /\ last' = [StorageNote("mongo.retry", "-", {}, {}, FALSE)
                          EXCEPT !.delay = RetryDelay(retryCount + 1)]
       ELSE /\ retryCount' = retryCount
            /\ tasks' = Finish(tasks, t)
            /\ last' = StorageNote("mongo.givenUp", "-", {}, {}, FALSE)
  /\ UNCHANGED <<registryVars, flagVars, handles, storageVars, pgConnected, budget>>

(* setTimeout(() => this._initConnection(), delay) fires. *)
mongoRetryTimer(t) ==
  /\ t.kind = "mongoInit" /\ t.pc = "timer"
  /\ tasks' = Resume(tasks, t, "connect")
  /\ last' = StorageNote("mongo.attempt", "-", {}, {}, FALSE)
  /\ UNCHANGED <<registryVars, flagVars, handles, storageVars, backendVars, budget>>

(* new PostgreSQLStorage(): the pool connected and answered SELECT 1. *)
pgInitConnected(t) ==
  /\ t.kind = "pgInit" /\ t.pc = "connect"
  /\ pgConnected' = TRUE
  /\ tasks' = Finish(tasks, t)
  /\ last' = StorageNote("pg.connected", "-", {}, {}, TRUE)
  /\ UNCHANGED <<registryVars, flagVars, handles, storageVars, mongoConnected,
                 retryCount, budget>>

(* PostgreSQLStorage._initConnection's catch. *)
pgInitFailed(t) ==
  /\ t.kind = "pgInit" /\ t.pc = "connect"
  /\ pgConnected' = FALSE
  /\ tasks' = Finish(tasks, t)
  /\ last' = StorageNote("pg.givenUp", "-", {}, {}, FALSE)
  /\ UNCHANGED <<registryVars, flagVars, handles, storageVars, mongoConnected,
                 retryCount, budget>>

storageSaveSession(sid, data, f) ==
  /\ StorageCall
  /\ saveSessionUnder(sid, data, f)
  /\ last' = StorageNote("saveSession", sid, f, saveSessionAsked, saveSessionResult(f))

storageUpdateSession(sid, upd, f) ==
  /\ StorageCall
  /\ updateSessionUnder(sid, upd, f)
  /\ last' = StorageNote("updateSession", sid, f, updateSessionAsked,
                         updateSessionResult(sid, upd, f))

storageGetSession(sid, f) ==
  /\ StorageCall
  /\ UNCHANGED storageVars
  /\ last' = StorageNote("getSession", sid, f, getSessionAsked(sid, f),
                         getSessionUnder(sid, f))

storageCompletelyDeleteSession(sid, f) ==
  /\ StorageCall
  /\ completelyDeleteSessionUnder(sid, f)
  /\ last' = StorageNote("completelyDeleteSession", sid, f,
                         completelyDeleteSessionAsked,
                         completelyDeleteSessionResult(sid, f))

storageGetAllSessions(f) ==
  /\ StorageCall
  /\ UNCHANGED storageVars
  /\ last' = StorageNote("getAllSessions", "-", f, getAllSessionsAsked,
                         getAllSessionsUnder(f))

NextStorage ==
  \/ \E t \in Pending : mongoInitConnected(t)
  \/ \E t \in Pending : mongoInitFailed(t)
  \/ \E t \in Pending : mongoRetryTimer(t)
  \/ \E t \in Pending : pgInitConnected(t)
  \/ \E t \in Pending : pgInitFailed(t)
  \/ \E sid \in budget.sessions, data \in SaveInputs, f \in SUBSET Drivers :
       storageSaveSession(sid, data, f)
  \/ \E sid \in budget.sessions, upd \in UpdateInputs, f \in SUBSET Drivers :
       storageUpdateSession(sid, upd, f)
  \/ \E sid \in budget.sessions, f \in SUBSET Drivers : storageGetSession(sid, f)
  \/ \E sid \in budget.sessions, f \in SUBSET Drivers :
       storageCompletelyDeleteSession(sid, f)
  \/ \E f \in SUBSET Drivers : storageGetAllSessions(f)

(* What the databases may hold from earlier runs: a document written at     *)
(* pairing time, a row that was later marked connected.                      *)
Nobody == [s \in Sessions |-> NoRecord]
StoredMongo == MongoSaveSession(Nobody, "session_1", InitialRecord(UserPhone))
StoredPg ==
  PgUpdateSession(PgSaveSession(Nobody, "session_1", InitialRecord("null")),
                  "session_1", Connected)

(* After new SessionStorage(): both adapters have started their first        *)
(* connection attempt and neither is connected yet.                          *)
InitStorage ==
  /\ activeSockets = [s \in Sessions |-> 0]
  /\ sessionState = [s \in Sessions |-> NoState]
  /\ initializingSessions = {}
  /\ voluntarilyDisconnected = {}
  /\ handoffComplete = {}
  /\ handles = << >>
  /\ mongoSessions \in {Nobody, StoredMongo}
  /\ pgSessions \in {Nobody, StoredPg}
  /\ creds \in {c \in [Sessions -> {{}, BlobNames}] : c["session_2"] = {}}
  /\ mongoConnected = FALSE
  /\ pgConnected = FALSE
  /\ retryCount = 0
  /\ tasks = SetToBag({ApiTask("mongoInit", "connect", "-"),
                       ApiTask("pgInit", "connect", "-")})
  /\ budget = [calls |-> StorageCalls, handles |-> 0, faulty |-> 0,
               sessions |-> Sessions, maxSessions |-> maxSessions]
  /\ last = NoLast

SpecStorage == InitStorage /\ [][NextStorage]_vars

----------------------------------------------------------------------------
(* The credential store of MongoDBStorage (collection auth_baileys) on its   *)
(* own.  A credential name is a sequence of characters; a document carries   *)
(* its flat key `filename`, its payload `datajson`, and, as history, the     *)
(* name it was last written under (`writtenAs`).                             *)

NameChars == {"a", ":", "/", "\\", "_", "-"}
Payloads == {"p1", "p2"}

RECURSIVE NamesUpTo(_)
NamesUpTo(n) ==
  IF n = 0 THEN {<< >>}
  ELSE LET shorter == NamesUpTo(n - 1)
       IN shorter \cup {Append(w, c) : w \in shorter, c \in NameChars}

CredentialNames == NamesUpTo(MaxNameLen) \ {<< >>}

(* fileName.replace(/::/g, "__"): leftmost matches, not overlapping. *)
RECURSIVE ReplaceColonPairs(_)
ReplaceColonPairs(w) ==
  IF Len(w) = 0 THEN w
  ELSE IF Len(w) >= 2 /\ w[1] = ":" /\ w[2] = ":"
         THEN <<"_", "_">> \o ReplaceColonPairs(SubSeq(w, 3, Len(w)))
         ELSE <<w[1]>> \o ReplaceColonPairs(Tail(w))

(* .replace(/:/g, "-").replace(/\//g, "_").replace(/\\/g, "_") *)
ReplaceChar(c) ==
  CASE c = ":" -> "-"
    [] c = "/" -> "_"
    [] c = "\\" -> "_"
    [] OTHER -> c

sanitize(w) ==
  LET v == ReplaceColonPairs(w)
  IN [i \in 1..Len(v) |-> ReplaceChar(v[i])]

AuthNote(op, sid, name, ret, from) ==
  [op |-> op, sid |-> sid, name |-> name, ret |-> ret, from |-> from]

AuthServes(f) == mongoConnected /\ "mongoAuth" \notin f

AuthCall ==
  /\ budget.calls > 0
  /\ budget' = [budget EXCEPT !.calls = @ - 1]
  /\ UNCHANGED <<registryVars, flagVars, handles, backendVars, tasks,
                 mongoSessions, pgSessions>>

(* updateOne({sessionId, filename: sanitized}, {$set: ...}, {upsert: true}) *)
writeAuthData(sid, name, data, f) ==
  /\ AuthCall
  /\ creds' = IF AuthServes(f)
                THEN [creds EXCEPT ![sid] =
                        {d \in @ : d.filename # sanitize(name)}
                          \cup {[filename |-> sanitize(name), datajson |-> data,
                                  writtenAs |-> name]}]
                ELSE creds
  /\ last' = AuthNote("writeAuthData", sid, name, AuthServes(f), name)

(* findOne({sessionId, filename: sanitized}); null when nothing is found or  *)
(* the adapter cannot serve.                                                 *)
readAuthData(sid, name, f) ==
  /\ AuthCall
  /\ creds' = creds
  /\ LET found == {d \in creds[sid] : d.filename = sanitize(name)}
     IN last' = IF AuthServes(f) /\ found # {}
                  THEN LET d == CHOOSE x \in found : TRUE
                       IN AuthNote("readAuthData", sid, name, d.datajson, d.writtenAs)
                  ELSE AuthNote("readAuthData", sid, name, "null", name)

NextAuth ==
  \/ \E sid \in budget.sessions, name \in CredentialNames, data \in Payloads,
         f \in {NoFault, {"mongoAuth"}} : writeAuthData(sid, name, data, f)
  \/ \E sid \in budget.sessions, name \in CredentialNames,
         f \in {NoFault, {"mongoAuth"}} : readAuthData(sid, name, f)

(* The adapter is connected and the collection is empty. *)
InitAuth ==
  /\ activeSockets = [s \in Sessions |-> 0]
  /\ sessionState = [s \in Sessions |-> NoState]
  /\ initializingSessions = {}
  /\ voluntarilyDisconnected = {}
  /\ handoffComplete = {}
  /\ handles = << >>
  /\ mongoSessions = Nobody
  /\ pgSessions = Nobody
  /\ creds = [s \in Sessions |-> {}]
  /\ mongoConnected = TRUE
  /\ pgConnected = TRUE
  /\ retryCount = 0
  /\ tasks = EmptyBag
  /\ budget = [calls |-> AuthCalls, handles |-> 0, faulty |-> 0,
               sessions |-> {"session_1"}, maxSessions |-> maxSessions]
  /\ last = NoLast

SpecAuth == InitAuth /\ [][NextAuth]_vars

----------------------------------------------------------------------------
(* Properties *)

CloseNotes == {"close.started", "close.step", "close.handled"}
HandoffNotes == {"handoff.marked", "handoff.aborted", "handoff.cleaned", "handoff.done"}

(* C1: overlapping createSession calls of one session create and register at *)
(* most one socket: no call registers a socket when another call of the      *)
(* session, in flight at the same time, has registered one.  (A create task  *)
(* holding a socket is marked late exactly when that has happened.)          *)
C1_OneSocketPerOverlap ==
  \A t \in Pending : (t.kind = "create" /\ t.h # 0) => ~t.late

(* C2: a close event from a socket whose handoff has completed changes       *)
(* neither the session record nor the credential blobs, in any step of its   *)
(* handler.                                                                  *)
C2_StaleCloseWritesNothing ==
  (last.op \in CloseNotes /\ last.stale) => ~last.wrote

(* C5: when the teardown step of a handoff reported failure, the session is  *)
(* not in handoffComplete when the handoff attempt ends.                     *)
C5_FailedHandoffUnmarks ==
  (last.op = "handoff.done" /\ last.ret = 0) => last.sid \notin handoffComplete

(* C9: a reconnect timer never registers a socket when a 401 or 428 close of *)
(* the session has been handled since the timer was scheduled and no caller  *)
(* has invoked createSession since.                                          *)
C9_NoSocketAfterLogout ==
  last.op = "reconnect.registered" => ~last.stale

(* C3: in a handoff that passed the liveness check the session is in         *)
(* handoffComplete before the teardown begins and is removed from the        *)
(* registries only after it; hence a close event delivered while a handoff   *)
(* is at its teardown, or on a socket whose handoff has finished, finds the  *)
(* session in handoffComplete.                                               *)
C3_MarkedAroundTeardown ==
  /\ \A t \in Pending :
       (t.kind = "handoff" /\ t.pc \in SyncPcs) => t.sid \in handoffComplete
  /\ last.op = "handoff.done" => last.sid \in handoffComplete
  /\ (last.op \in {"close.started", "close.ignored"} /\ last.stale)
       => last.sid \in handoffComplete

(* C7: when the handler of a 401 or 428 close finishes, the record reads     *)
(* (if there is one) isConnected = false and 'disconnected', no blob is left, *)
(* neither a socket nor a state entry is registered, and onError was called  *)
(* once.                                                                     *)
C7_LoggedOutPostcondition ==
  (last.op = "close.handled" /\ last.code \in {401, 428} /\ ~last.stale)
    => /\ SessionRecord(last.sid).present
            => /\ ~SessionRecord(last.sid).isConnected
               /\ SessionRecord(last.sid).connectionStatus = "disconnected"
       /\ creds[last.sid] = {}
       /\ activeSockets[last.sid] = 0
       /\ ~sessionState[last.sid].present
       /\ last.ret = 1

(* C8: when a 401 close has been handled the session is absent from          *)
(* getAllSessions and has no credential blob.                                *)
C8_LoggedOutSessionAbsent ==
  (last.op = "close.handled" /\ last.code = 401)
    => /\ last.sid \notin getAllSessions
       /\ creds[last.sid] = {}

(* C4: no step of the handoff protocol, from the timer firing to the removal *)
(* from the registries or to the abort, writes a session record or a         *)
(* credential blob.                                                          *)
C4_HandoffWritesNothing ==
  [][last'.op \in HandoffNotes => UNCHANGED storageVars]_vars

HandoffPending(h) ==
  \E t \in Pending : t.kind = "handoff" /\ t.pc = "ho_timer" /\ t.h = h

HandoffAborted(h) == last.op = "handoff.aborted" /\ last.h = h

HandoffDone(h) ==
  /\ last.op = "handoff.done" /\ last.h = h
  /\ activeSockets[last.sid] = 0
  /\ last.sid \in handoffComplete
  /\ SessionRecord(last.sid).present
       => /\ SessionRecord(last.sid).isConnected
          /\ SessionRecord(last.sid).connectionStatus = "connected"
          /\ ~SessionRecord(last.sid).detected

(* C6: once the open event of a socket has been handled, the handoff timer   *)
(* eventually fires and, unless the socket was torn down before (the handoff *)
(* aborts), the socket is removed from the registry, the session is in       *)
(* handoffComplete and the record is as the open handler wrote it.           *)
C6_OpenLeadsToHandoff ==
  /\ [](last.op = "handoff.done" => HandoffDone(last.h))
  /\ \A h \in 1..MaxHandles : HandoffPending(h) ~> (HandoffDone(h) \/ HandoffAborted(h))

(* C4: a handoff has completed for a connected session whose credentials are *)
(* stored.                                                                   *)
C4_Witness ==
  /\ last.op = "handoff.done"
  /\ SessionRecord(last.sid).isConnected
  /\ SessionRecord(last.sid).connectionStatus = "connected"
  /\ creds[last.sid] # {}

(* C8 as the code has it: when a 401 close has been handled the session has  *)
(* no credential blob, and no step of a close handler removes a session from *)
(* getAllSessions: the record stays, marked disconnected.                    *)
C8_LoggedOutRecordKept ==
  /\ []((last.op = "close.handled" /\ last.code = 401) => creds[last.sid] = {})
  /\ [][last'.op \in CloseNotes => getAllSessions \subseteq getAllSessions']_vars

C8_Witness ==
  /\ last.op = "close.handled" /\ last.code = 401
  /\ last.sid \in getAllSessions
  /\ ~SessionRecord(last.sid).isConnected
  /\ SessionRecord(last.sid).connectionStatus = "disconnected"
  /\ creds[last.sid] = {}

ReconnectPending(h) ==
  \E t \in Pending : t.kind = "reconnect" /\ t.pc = "rc_timer" /\ t.h = h

ReconnectRegistered(h) ==
  /\ last.op = "reconnect.registered" /\ last.h = h
  /\ activeSockets[last.sid] = last.ret
  /\ handles[last.ret].listening
  /\ last.phone # "null"
  /\ ~last.pairing
  /\ ~SessionRecord(last.sid).detected

ReconnectFailed(h) ==
  /\ last.op = "reconnect.failed" /\ last.h = h
  /\ SessionRecord(last.sid).present
       => /\ ~SessionRecord(last.sid).isConnected
          /\ SessionRecord(last.sid).connectionStatus = "disconnected"
          /\ ~SessionRecord(last.sid).detected

C11_NoReconnectAfterDisconnect ==
  \A t \in Pending :
    (t.kind = "reconnect" /\ t.seen = "disconnected")
      => /\ t.sid \in voluntarilyDisconnected
         /\ t.pc # "rc_conn"

(* C12: a handoff timer whose socket was torn down by another path before it *)
(* fired (a handled close of the socket, disconnectSession or a full cleanup *)
(* of its session) is a no-op: it never passes the liveness check, so it     *)
(* neither marks the session handed off nor touches the registries.          *)
C12_ObsoleteHandoffIsNoOp ==
  (last.op \in HandoffNotes /\ last.stale) => last.op = "handoff.aborted"

(* C13: the handlers of the events of one session run one after another: no  *)
(* two open or close handlers of a session are in flight together.           *)
C13_HandlersSerialised ==
  \A s \in Sessions :
    Copies(tasks, {t \in Pending : t.kind \in {"open", "close"} /\ t.sid = s}) <= 1

(* C17: a session is in initializingSessions exactly while a createSession   *)
(* call that passed the guards for it is in flight.                          *)
C17_InitializingAccurate ==
  \A s \in Sessions :
    s \in initializingSessions <=> \E t \in Pending : t.kind = "create" /\ t.sid = s

(* C14: the number of registered handles never exceeds maxSessions, and a    *)
(* createSession call that finds the registry at the ceiling fails with the  *)
(* capacity error: no provider call, no registration, no record written.     *)
C14_CeilingEnforced ==
  /\ SocketsSize <= budget.maxSessions
  /\ last.op = "create.capacity"
       => /\ ~last.wrote
          /\ \A t \in Pending : ~(t.kind = "create" /\ t.sid = last.sid)

(* C15 (as stated): after createSession failed because the provider gave no  *)
(* handle, no handle and no SessionState entry is registered for the         *)
(* session, the call saved no record and the initializing marker is gone.    *)
C15_FailedCreateLeavesNothing ==
  last.op = "create.failed"
    => /\ activeSockets[last.sid] = 0
       /\ ~sessionState[last.sid].present
       /\ ~last.wrote
       /\ last.sid \notin initializingSessions

(* C15 (amended): the failing call itself registers no handle and no         *)
(* SessionState entry, writes no record and removes the initializing marker; *)
(* what was registered before the call stays registered.                     *)
C15_FailedCreateRegistersNothing ==
  [][last'.op = "create.failed"
       => /\ UNCHANGED <<activeSockets, sessionState, handles>>
          /\ UNCHANGED <<mongoSessions, pgSessions>>
          /\ last'.sid \notin initializingSessions']_vars

C15_Witness ==
  /\ last.op = "create.failed"
  /\ activeSockets[last.sid] # 0
  /\ sessionState[last.sid].present
  /\ last.sid \notin initializingSessions

(* C16: a createSession call that found the session in the initializing set  *)
(* was given the handle that the call in flight builds and returns.          *)
C16_EarlyReturnGivesBuiltHandle ==
  \A t \in Pending :
    (t.kind = "create" /\ t.pc = "cs_save" /\ t.gave # -1) => t.gave = t.h

(* What a createSession call that returns from a guard leaves alone: the     *)
(* registry, SessionState and the records; and it starts no provider call.   *)
GuardNotes == {"create.initializing", "create.handedOff", "create.existing"}

GuardFrame ==
  /\ UNCHANGED <<activeSockets, sessionState, handles, storageVars>>
  /\ BagCardinality(tasks') = BagCardinality(tasks)

(* C18: createSession for a session in the handed-off set returns no handle; *)
(* createSession with isReconnect = false for a session whose registered     *)
(* handle is live returns that handle; in both cases the provider is not     *)
(* called and registry, SessionState and record are unchanged.               *)
C18_GuardedCallsChangeNothing ==
  [][\A sid \in Sessions, phone \in Phones, isReconnect \in BOOLEAN,
        allowPairing \in BOOLEAN :
       createSession(sid, phone, isReconnect, allowPairing)
         => /\ sid \in handoffComplete
                 => /\ last'.op \in GuardNotes
                    /\ last'.ret = 0
                    /\ GuardFrame
            /\ (~isReconnect /\ IsLive(handles, activeSockets[sid]))
                 => /\ last'.op \in GuardNotes
                    /\ last'.ret = activeSockets[sid]
                    /\ GuardFrame]_vars

(* C19: when createSession returns the handle it created, the handle is      *)
(* registered, SessionState is 'connecting' and not connected, the listener  *)
(* is attached, and the persisted record has detected = false, status        *)
(* 'connecting', isConnected = false and reconnectAttempts = 0.              *)
C19_CreatedPostcondition ==
  last.op = "create.returned"
    => /\ activeSockets[last.sid] = last.h
       /\ sessionState[last.sid].present
       /\ sessionState[last.sid].connectionStatus = "connecting"
       /\ ~sessionState[last.sid].isConnected
       /\ handles[last.h].listening
       /\ SessionRecord(last.sid).present
       /\ ~SessionRecord(last.sid).detected
       /\ SessionRecord(last.sid).connectionStatus = "connecting"
       /\ ~SessionRecord(last.sid).isConnected
       /\ SessionRecord(last.sid).reconnectAttempts = 0

(* The steps of createSession outside the stale-auth cleanup it may run. *)
CreateStep ==
  \/ \E sid \in Sessions, phone \in Phones, isReconnect \in BOOLEAN,
        allowPairing \in BOOLEAN : createSession(sid, phone, isReconnect, allowPairing)
  \/ \E t \in Pending : \/ createSessionAuthChecked(t)
                         \/ createSessionSettled(t)
                         \/ createSessionConnected(t)
                         \/ createSessionSaved(t)

(* A step deletes nothing: no credential blob and no record of any session. *)
NothingDeleted ==
  \A s \in Sessions :
    /\ creds[s] \subseteq creds'[s]
    /\ mongoSessions[s].present => mongoSessions'[s].present
    /\ pgSessions[s].present => pgSessions'[s].present

(* C20: a pairing createSession (isReconnect = false, allowPairing = true)   *)
(* that found prior credentials calls the provider's createConnection only   *)
(* after its full cleanup has completed (record deleted, credentials         *)
(* purged); a createSession with isReconnect = true or allowPairing = false  *)
(* or without prior credentials purges no credentials and deletes no record. *)
C20_CleanupBeforePairing ==
  /\ [](\A t \in Pending :
          t.kind = "create"
            => /\ (t.isReconnect \/ ~t.allowPairing) => t.seen = "none"
               /\ (~t.isReconnect /\ t.allowPairing /\ t.pc \in {"cs_conn", "cs_save"})
                    => t.seen \in {"fresh", "cleaned"}
               /\ t.pc \in {"cl_db", "cl_auth"}
                    => ~t.isReconnect /\ t.allowPairing /\ t.seen = "stale"
               /\ t.pc = "cs_settle" => t.seen = "cleaned")
  /\ [][/\ CreateStep => NothingDeleted
        /\ \A t \in Pending :
             /\ (t.kind = "create" /\ cleanupDeleted(t))
                  => /\ ~mongoSessions'[t.sid].present
                     /\ ~pgSessions'[t.sid].present
             /\ (t.kind = "create" /\ cleanupAuthCleared(t))
                  => creds'[t.sid] = {}]_vars

C20_Witness ==
  \E t \in Pending :
    /\ t.kind = "create" /\ t.pc = "cs_conn" /\ t.seen = "cleaned"
    /\ creds[t.sid] = {}

(* The teardown of socket h by a step: a sound socket loses its listeners,   *)
(* an open transport is closed and sock.user is cleared; a socket whose      *)
(* teardown throws is left as it was; every other socket is untouched.       *)
OnlyTornDown(h) ==
  \A k \in HandleIds :
    IF k = h /\ ~handles[k].faulty
      THEN /\ ~handles'[k].listening
           /\ handles'[k].ws # "open"
           /\ ~handles'[k].user
      ELSE handles'[k] = handles[k]

(* C21: disconnectSession(sessionId, false) adds the session to the          *)
(* voluntarily-disconnected set, tears down only the transport of the        *)
(* registered socket, drops the socket and the SessionState from the         *)
(* registries, marks the record isConnected = false / 'disconnected' and     *)
(* deletes neither the record nor a credential blob;                         *)
(* disconnectSession(sessionId, true) is performCompleteUserCleanup.         *)
C21_DisconnectMarksAndKeeps ==
  [][\A sid \in Sessions :
       /\ disconnectSession(sid, FALSE)
            => /\ sid \in voluntarilyDisconnected'
               /\ activeSockets'[sid] = 0
               /\ ~sessionState'[sid].present
               /\ OnlyTornDown(activeSockets[sid])
               /\ UNCHANGED storageVars
       /\ \A t \in Pending :
            (t.sid = sid /\ disconnectSessionUpdated(t))
              => /\ creds' = creds
                 /\ \A s \in Sessions :
                      /\ mongoSessions'[s].present = mongoSessions[s].present
                      /\ pgSessions'[s].present = pgSessions[s].present
                 /\ mongoSessions[sid].present
                      => /\ ~mongoSessions'[sid].isConnected
                         /\ mongoSessions'[sid].connectionStatus = "disconnected"
                 /\ pgSessions[sid].present
                      => /\ ~pgSessions'[sid].isConnected
                         /\ pgSessions'[sid].connectionStatus = "disconnected"
       /\ disconnectSession(sid, TRUE) <=> performCompleteUserCleanup(sid)]_vars

C21_Witness ==
  /\ last.op = "disconnect.returned"
  /\ last.wrote
  /\ last.sid \in voluntarilyDisconnected
  /\ activeSockets[last.sid] = 0
  /\ SessionRecord(last.sid).present
  /\ SessionRecord(last.sid).connectionStatus = "disconnected"
  /\ creds[last.sid] # {}
  /\ \E h \in HandleIds : handles[h].sid = last.sid /\ ~handles[h].listening

(* C22: performCompleteUserCleanup always returns its result record, one     *)
(* boolean per step; a failed transport teardown or a failed database        *)
(* deletion does not keep the credential purge from running, and each        *)
(* boolean tells what its own step did: socket, that the registered socket   *)
(* was torn down; database, that the storage deleted something; authState,   *)
(* that the purge removed credentials.                                       *)
C22_CleanupResultsIndependent ==
  [][/\ \A sid \in Sessions :
          performCompleteUserCleanup(sid)
            => \E u \in Pending' :
                 /\ u.kind = "cleanup" /\ u.sid = sid /\ u.pc = "cl_db"
                 /\ u.res.socket <=> /\ activeSockets[sid] # 0
                                      /\ ~handles'[activeSockets[sid]].listening
                                      /\ ~handles'[activeSockets[sid]].user
                 /\ ~u.res.database /\ ~u.res.authState
     /\ \A t \in Pending :
          t.kind = "cleanup"
            => /\ cleanupDeleted(t)
                    => \E u \in Pending' :
                         /\ u.kind = "cleanup" /\ u.sid = t.sid /\ u.pc = "cl_auth"
                         /\ u.res.socket = t.res.socket
                         /\ u.res.database <=> storageVars' # storageVars
                         /\ ~u.res.authState
               /\ cleanupAuthCleared(t)
                    => /\ last'.op = "cleanup.returned"
                       /\ last'.res.socket = t.res.socket
                       /\ last'.res.database = t.res.database
                       /\ last'.res.authState <=> creds' # creds
                       /\ creds'[t.sid] = {}]_vars

C22_Witness ==
  /\ last.op = "cleanup.returned"
  /\ ~last.res.socket
  /\ ~last.res.database
  /\ last.res.authState

(* A step keeps every credential blob of every session. *)
CredsKept == \A s \in Sessions : creds[s] \subseteq creds'[s]

(* The steps that purge: the full cleanup (performCompleteUserCleanup, also  *)
(* when createSession runs it before a new pairing) and the 401 / 428 close. *)
PurgeStep ==
  \E t \in Pending :
    \/ cleanupDeleted(t)
    \/ cleanupAuthCleared(t)
    \/ t.code \in {401, 428} /\ closeAuthCleared(t)

(* C23: credential blobs are never deleted by the handoff, by a non-forced   *)
(* disconnectSession, by a 515 close or its reconnect, or by a close with a  *)
(* code other than 401 and 428; they are purged only by a 401 or 428 close   *)
(* or by a full cleanup.                                                     *)
C23_CredentialsSurvive ==
  [][/\ \A t \in Pending :
          (\/ handoffTimer(t) \/ handoffCleanup(t) \/ handoffRemove(t)
           \/ disconnectSessionUpdated(t)
           \/ t.code \notin {401, 428} /\ closeUpdated(t)
           \/ reconnectTimer(t) \/ reconnectLoaded(t)
           \/ reconnectConnected(t) \/ reconnectFailed(t))
            => CredsKept
     /\ \A sid \in Sessions : disconnectSession(sid, FALSE) => CredsKept
     /\ \A h \in HandleIds, code \in CloseCodes : emitClose(h, code) => CredsKept
     /\ ~CredsKept => PurgeStep]_vars

C23_Witness ==
  /\ last.op = "handoff.done"
  /\ creds[last.sid] # {}

(* _cleanupSocketOnly has run on the handle: no listener is attached and the *)
(* handle is not a live connection.                                          *)
TornDown(h) == ~handles[h].listening /\ ~IsLive(handles, h)

(* C24: a handle that was dropped from the registry or overwritten in it has *)
(* been torn down: no handle outside the registry has listeners attached or  *)
(* is a live connection.                                                     *)
C24_DroppedHandlesTornDown ==
  \A h \in HandleIds : activeSockets[handles[h].sid] # h => TornDown(h)

(* A backend takes a write when it is connected and its driver call does not *)
(* throw.                                                                    *)
MongoTakes(f) == mongoConnected /\ "mongo" \notin f
PgTakes(f) == pgConnected /\ "pg" \notin f

Holds(rec, data) ==
  /\ rec.present
  /\ \A k \in DOMAIN data \cap DOMAIN rec : rec[k] = data[k]

(* C25: saveSession and updateSession try the write on every connected       *)
(* backend whatever the other backend did, and return true iff at least one  *)
(* backend accepted the write.                                               *)
C25_WriteReachesEachBackend ==
  [][/\ last'.op = "saveSession" =>
          \A sid \in {last'.sid}, f \in {last'.f}, data \in SaveInputs :
          storageSaveSession(sid, data, f) =>
            /\ last'.asked = ConnectedBackends
            /\ IF MongoTakes(f)
                 THEN Holds(mongoSessions'[sid], [data EXCEPT !.phoneNumber = @])
                 ELSE mongoSessions' = mongoSessions
            /\ IF PgTakes(f)
                 THEN Holds(pgSessions'[sid],
                            [k \in DOMAIN data \ {"phoneNumber"} |-> data[k]])
                 ELSE pgSessions' = pgSessions
            /\ last'.ret <=> (MongoTakes(f) \/ PgTakes(f))
     /\ last'.op = "updateSession" =>
          \A sid \in {last'.sid}, f \in {last'.f}, upd \in UpdateInputs :
          storageUpdateSession(sid, upd, f) =>
            LET mongoAccepts == MongoTakes(f) /\ mongoSessions[sid].present
                pgAccepts == /\ PgTakes(f) /\ pgSessions[sid].present
                             /\ DOMAIN upd \cap DOMAIN pgSessions[sid] # {}
            IN /\ last'.asked = ConnectedBackends
               /\ IF mongoAccepts THEN Holds(mongoSessions'[sid], upd)
                                  ELSE mongoSessions' = mongoSessions
               /\ IF pgAccepts THEN Holds(pgSessions'[sid], upd)
                               ELSE pgSessions' = pgSessions
               /\ last'.ret <=> (mongoAccepts \/ pgAccepts)]_vars

C25_Witness ==
  /\ last.op = "saveSession"
  /\ last.asked = {"mongo", "pg"}
  /\ last.f = {"mongo"}
  /\ last.ret = TRUE
  /\ pgSessions[last.sid].present /\ ~mongoSessions[last.sid].present

(* The record `ret` is the stored record `rec` as getSession hands it out. *)
SameRecord(ret, rec) ==
  /\ ret.present
  /\ \A k \in DOMAIN rec \ {"detected"} : ret[k] = rec[k]

(* C26: getSession asks MongoDB first and PostgreSQL second and returns the  *)
(* first record found: MongoDB's record, without asking PostgreSQL, when     *)
(* MongoDB is connected and holds it; PostgreSQL's record when MongoDB is    *)
(* unreachable, fails or holds none; null when neither yields a record.      *)
C26_FirstRecordWins ==
  [][last'.op = "getSession" =>
       \A sid \in {last'.sid}, f \in {last'.f} :
         storageGetSession(sid, f) =>
           /\ UNCHANGED storageVars
           /\ ("mongo" \in last'.asked) <=> mongoConnected
           /\ IF MongoTakes(f) /\ mongoSessions[sid].present
                THEN /\ SameRecord(last'.ret, mongoSessions[sid])
                     /\ "pg" \notin last'.asked
                ELSE /\ ("pg" \in last'.asked) <=> pgConnected
                     /\ IF PgTakes(f) /\ pgSessions[sid].present
                          THEN SameRecord(last'.ret, pgSessions[sid])
                          ELSE last'.ret = NoRecord]_vars

(* Both backends hold the session, with different contents, and MongoDB's    *)
(* record was returned without asking PostgreSQL.                            *)
C26_Witness ==
  /\ last.op = "getSession"
  /\ last.asked = {"mongo"}
  /\ pgConnected /\ pgSessions[last.sid].present
  /\ last.ret.connectionStatus = mongoSessions[last.sid].connectionStatus
  /\ last.ret.connectionStatus # pgSessions[last.sid].connectionStatus

MongoListing == {s \in Sessions : mongoSessions[s].present}
PgListing == {s \in Sessions : pgSessions[s].present}

(* C27: getAllSessions returns PostgreSQL's records when PostgreSQL is       *)
(* connected and serves them, the records of MongoDB when PostgreSQL cannot  *)
(* serve and MongoDB can, and the empty list when neither backend can.       *)
(* (A listing writes nothing, so the collections are those it read.)         *)
C27_ListingFallsBack ==
  last.op = "getAllSessions" =>
    last.ret = IF PgTakes(last.f) THEN PgListing
               ELSE IF MongoTakes(last.f) THEN MongoListing
               ELSE {}

(* C28: completelyDeleteSession issues the record delete on every connected  *)
(* backend and the credential purge (through the MongoDB adapter); each one  *)
(* runs whatever becomes of the others; the result is true iff at least one  *)
(* of the issued deletes reported that it removed something.                 *)
C28_DeleteFansOut ==
  [][last'.op = "completelyDeleteSession" =>
       \A sid \in {last'.sid}, f \in {last'.f} :
         storageCompletelyDeleteSession(sid, f) =>
           LET mongoDeletes == MongoTakes(f)
               purges == mongoConnected /\ "mongoAuth" \notin f
               pgDeletes == PgTakes(f)
           IN /\ last'.asked =
                   (IF mongoConnected THEN {"mongo", "mongoAuth"} ELSE {})
                     \cup (IF pgConnected THEN {"pg"} ELSE {})
              /\ IF mongoDeletes THEN ~mongoSessions'[sid].present
                                  ELSE mongoSessions' = mongoSessions
              /\ IF purges THEN creds'[sid] = {} ELSE creds' = creds
              /\ IF pgDeletes THEN ~pgSessions'[sid].present
                               ELSE pgSessions' = pgSessions
              /\ \A s \in Sessions \ {sid} :
                   /\ mongoSessions'[s] = mongoSessions[s]
                   /\ pgSessions'[s] = pgSessions[s]
                   /\ creds'[s] = creds[s]
              /\ last'.ret <=> \/ mongoDeletes /\ mongoSessions[sid].present
                               \/ purges /\ creds[sid] # {}
                               \/ pgDeletes /\ pgSessions[sid].present]_vars

(* The MongoDB record delete failed, the row and the credentials went all    *)
(* the same, and the call reported success.                                  *)
C28_Witness ==
  /\ last.op = "completelyDeleteSession"
  /\ last.f = {"mongo"}
  /\ last.asked = {"mongo", "mongoAuth", "pg"}
  /\ last.ret = TRUE
  /\ mongoSessions[last.sid].present
  /\ ~pgSessions[last.sid].present /\ creds[last.sid] = {}

StorageOps ==
  {"saveSession", "updateSession", "getSession", "completelyDeleteSession",
   "getAllSessions"}

(* The driver calls that would answer: the adapter is connected and the call *)
(* does not throw.                                                           *)
Working(f) ==
  {d \in Drivers \ f : IF d = "pg" THEN pgConnected ELSE mongoConnected}

(* What an operation returns when it fails. *)
Failed(op) ==
  CASE op = "getSession" -> NoRecord
    [] op = "getAllSessions" -> {}
    [] OTHER -> FALSE

(* C29: no storage operation throws: each returns a value of its kind, and   *)
(* the failure value (false, null, the empty list) when no backend is        *)
(* connected or every underlying call fails; and when one backend is not     *)
(* connected or fails, the coordinator still calls the other connected one.  *)
(* (A storage operation leaves the isConnected flags as they were.)          *)
C29_FailSoft ==
  last.op \in StorageOps =>
    /\ CASE last.op = "getSession" ->
               last.ret = NoRecord \/ last.ret.present
          [] last.op = "getAllSessions" -> last.ret \subseteq Sessions
          [] OTHER -> last.ret \in BOOLEAN
    /\ (IF last.op = "completelyDeleteSession"
          THEN Working(last.f) = {}
          ELSE Working(last.f) \cap {"mongo", "pg"} = {})
         => last.ret = Failed(last.op)
    /\ (pgConnected /\ ~MongoTakes(last.f)) => "pg" \in last.asked
    /\ (mongoConnected /\ ~PgTakes(last.f)) => "mongo" \in last.asked

MongoStartupPending == {t \in Pending : t.kind = "mongoInit"}
PgStartupPending == {t \in Pending : t.kind = "pgInit"}

(* C30: each adapter retries a failed startup connection: after a failed     *)
(* attempt a retry is pending while the cap of retries is not reached, with  *)
(* a delay that doubles and never exceeds the cap (MongoDB: 5000, 10000,     *)
(* 20000 ms for retries 1, 2, 3); the retry counter returns to 0 on success; *)
(* after the last retry has failed nothing more is pending.                  *)
C30_BoundedBackoffStartup ==
  [][/\ \A t \in MongoStartupPending :
          /\ mongoInitFailed(t) =>
                IF retryCount < maxRetries
                  THEN /\ retryCount' = retryCount + 1
                       /\ MongoStartupPending' # {}
                       /\ last'.delay = BaseDelay * 2^retryCount
                       /\ last'.delay <= MaxDelay
                  ELSE /\ MongoStartupPending' = {}
                       /\ ~mongoConnected'
          /\ mongoInitConnected(t) =>
                retryCount' = 0 /\ mongoConnected' /\ MongoStartupPending' = {}
     /\ retryCount' <= maxRetries
     /\ \A t \in PgStartupPending :
          /\ pgInitFailed(t) => PgStartupPending' # {}
          /\ pgInitConnected(t) => pgConnected' /\ PgStartupPending' = {}]_vars

(* C31: two distinct credential names never share a flat key, so a write     *)
(* replaces only the document written under the same name, a read returns    *)
(* only a payload written under the name it asks for, and a read of a name   *)
(* that was written returns its payload.                                     *)
C31_SanitizeCollisionSafe ==
  /\ \A d \in creds["session_1"] : d.filename = sanitize(d.writtenAs)
  /\ last.op = "readAuthData" /\ last.ret # "null" => last.from = last.name
  /\ last.op = "writeAuthData" /\ last.ret = TRUE =>
        \E d \in creds[last.sid] : d.writtenAs = last.name

(* The in-process state of sid is gone or says what the handler wrote. *)
Follows(st, sid, isConnected, connectionStatus) ==
  st[sid].present =>
    /\ st[sid].isConnected = isConnected
    /\ st[sid].connectionStatus = connectionStatus

(* C32: after each handled open or close the SessionState of the session is  *)
(* removed or carries the isConnected and connectionStatus the handler wrote *)
(* to the record; cleanup, handoff and disconnect remove the SessionState.   *)
C32_StateFollowsRecord ==
  [][/\ \A t \in Pending :
          /\ openUpdated(t) => Follows(sessionState', t.sid, TRUE, "connected")
          /\ (t.code = 515 /\ closeUpdated(t)) =>
                Follows(sessionState', t.sid, FALSE, "reconnecting")
          /\ (t.code = 500 /\ closeUpdated(t)) =>
                Follows(sessionState', t.sid, FALSE, "disconnected")
          /\ closeAuthCleared(t) =>
                Follows(sessionState', t.sid, FALSE, "disconnected")
          /\ handoffRemove(t) => ~sessionState'[t.sid].present
     /\ \A sid \in Sessions, forceCleanup \in BOOLEAN :
          disconnectSession(sid, forceCleanup) => ~sessionState'[sid].present]_vars

(* A handoff call of sid is between its liveness check and its return. *)
HandoffInProgress(sid) ==
  \E t \in Pending : t.kind = "handoff" /\ t.sid = sid /\ t.pc \in SyncPcs

(* C33: while no handoff call of a session is in progress, a session in      *)
(* handoffComplete has no registered handle and no SessionState.             *)
C33_HandedOffMeansUnregistered ==
  \A sid \in Sessions :
    (sid \in handoffComplete /\ ~HandoffInProgress(sid)) =>
      /\ activeSockets[sid] = 0
      /\ ~sessionState[sid].present

(* The registry maps the session of t to a handle other than the one t       *)
(* belongs to.                                                               *)
Replaced(t) == activeSockets[t.sid] \notin {0, t.h}

(* C34: a close handler or handoff timer of a handle that has been replaced  *)
(* in the registry by a newer handle neither unregisters the newer handle    *)
(* nor deletes its SessionState.                                             *)
C34_OnlyOwnEntryRemoved ==
  [][\A t \in Pending :
       (Replaced(t) /\ (closeUpdated(t) \/ closeAuthCleared(t) \/ handoffRemove(t)))
         => /\ activeSockets'[t.sid] = activeSockets[t.sid]
            /\ sessionState'[t.sid] = sessionState[t.sid]]_vars

(* Close handling of a session has finished: a close branch has run to its   *)
(* end, or the reconnect that a 515 close scheduled has ended in failure.    *)
CloseFinished ==
  \/ last.op = "close.handled" /\ last.code # 515
  \/ last.op = "reconnect.failed"

(* C35: when close handling has finished and the record of the session says  *)
(* connectionStatus = 'disconnected', no handle is registered for it.        *)
C35_DisconnectedMeansUnregistered ==
  (CloseFinished /\ SessionRecord(last.sid).connectionStatus = "disconnected")
    => activeSockets[last.sid] = 0

RecordConnected(sid) ==
  /\ SessionRecord(sid).present
  /\ SessionRecord(sid).isConnected
  /\ SessionRecord(sid).connectionStatus = "connected"

(* The open event of handle h has been handled: its handoff timer is set. *)
OpenHandled(h) == \E u \in Pending : u.kind = "handoff" /\ u.h = h

(* C36: a record that says connected stops saying so only in a step of a     *)
(* close handler, of a disconnect or of a cleanup of the session; and the    *)
(* initial save of createSession writes nothing once the open event of the   *)
(* handle it registered has been handled.                                    *)
C36_ConnectedUntilClosed ==
  [][/\ \A sid \in Sessions :
          (RecordConnected(sid) /\ ~RecordConnected(sid)') =>
            \E t \in Pending :
              /\ t.sid = sid
              /\ \/ closeUpdated(t) \/ reconnectFailed(t)
                 \/ disconnectSessionUpdated(t)
                 \/ cleanupDeleted(t)
     /\ \A t \in Pending :
          (createSessionSaved(t) /\ OpenHandled(t.h)) => UNCHANGED storageVars]_vars

(* C37: a session enters voluntarilyDisconnected only in a step in which a   *)
(* caller invokes disconnectSession or performCompleteUserCleanup for it; so *)
(* a session that createSession has just created, and that no caller has     *)
(* disconnected or cleaned up, is not in the set.                            *)
C37_VoluntaryOnlyByCaller ==
  [][\A sid \in Sessions :
       (sid \in voluntarilyDisconnected' \ voluntarilyDisconnected) =>
         \/ performCompleteUserCleanup(sid)
         \/ \E forceCleanup \in BOOLEAN : disconnectSession(sid, forceCleanup)]_vars


(* C38: shutdown starts a non-forced disconnect for every sessionId that is  *)
(* registered when it is called; the storage coordinator is closed only      *)
(* once every one of these disconnects, its record update included, has      *)
(* settled; and when shutdown returns none of these sessions has a           *)
(* registered handle.                                                        *)
C38_ShutdownDisconnectsAll ==
  [][/\ shutdown =>
          /\ \A s \in Registered :
                \E u \in ShutdownPromises' : u.sid = s /\ u.pc = "d_upd"
          /\ creds' = creds
     /\ ((mongoConnected /\ ~mongoConnected') \/ (pgConnected /\ ~pgConnected')) =>
          \A u \in ShutdownPromises : u.pc = "d_done"
     /\ \A t \in Pending :
          shutdownReturned(t) =>
            \A u \in ShutdownPromises : activeSockets[u.sid] = 0]_vars

============================================================================
